---- MODULE Spec2Model ----
(***************************************************************************)
(* A model of the canvas grid: size tracks (RowManager / ColumnManager),   *)
(* the sparse cell store, the SelectionManager, the command/undo engine    *)
(* and the pointer / keyboard handlers of Grid that drive them.            *)
(*                                                                         *)
(* Every handler is an operator from a world record (all fields of the     *)
(* program) to a world record, so that handlers that run one after the     *)
(* other inside one event dispatch compose; an action commits the world    *)
(* its handler returns.                                                    *)
(***************************************************************************)
EXTENDS Integers, Sequences, FiniteSets, TLC

(***************************************************************************)
(* Bounds of the model.  The program has 100000 rows and 5000 columns.     *)
(***************************************************************************)
ROWS == 2
COLS == 2
MaxHistory == 2

(***************************************************************************)
(* Program constants.                                                      *)
(***************************************************************************)
DEFAULT_COL_WIDTH == 100
DEFAULT_ROW_HEIGHT == 30
HEADER_SIZE == 40
RESIZE_GUTTER == 5
rowHeaderWidth == 40
MIN_COL_WIDTH == 40
MIN_ROW_HEIGHT == 20
DRAG_THRESHOLD == 2
DEFAULT_FONT_SIZE == 14
RENDER_BUFFER_PX == 200

RowIdx == 0 .. (ROWS - 1)
ColIdx == 0 .. (COLS - 1)
Coord == RowIdx \X ColIdx

Min(a, b) == IF a < b THEN a ELSE b
Max(a, b) == IF a > b THEN a ELSE b
Abs(a) == IF a < 0 THEN 0 - a ELSE a

(***************************************************************************)
(* null is modelled by -1 for an index and by a record of -1 for a point   *)
(* or rectangle, so that a field always holds values of one shape.         *)
(***************************************************************************)
Null == -1
NullPoint == [row |-> Null, col |-> Null]
NullRect == [startRow |-> Null, endRow |-> Null, startCol |-> Null, endCol |-> Null]
Point(r, c) == [row |-> r, col |-> c]

VARIABLES
    colWidths,      \* ColumnManager.colWidths
    rowHeights,     \* RowManager.rowHeights
    cells,          \* Grid.cells : occupied coordinate -> Cell
    selMgr,         \* the fields of the SelectionManager
    undoStack,      \* CommandManager.undoStack
    redoStack,      \* CommandManager.redoStack
    grid,           \* the session and scheduling fields of Grid
    calls,          \* the Command methods invoked by the last input event, in order
    tracksAtDown,   \* history: both size tracks as they were at the last pointer-down
    event,          \* history: the input event the last step dispatched
    ret,            \* history: the store accessor the last step called and what it returned
    storeLog,       \* history: the last non-blank text written per coordinate by
                    \* setCellValue, and the coordinates opened with getCell
    pointer         \* history: where the button went down in the pointer session
                    \* under way, where the last pointer event was, and whether a
                    \* move of the session went further than the drag threshold
                    \* from the press, horizontally (farX) or vertically (farY)

vars == <<colWidths, rowHeights, cells, selMgr, undoStack, redoStack, grid, calls,
          tracksAtDown, event, ret, storeLog, pointer>>

(***************************************************************************)
(* SizeTrack: ColumnManager and RowManager.                                *)
(***************************************************************************)
getWidth(w, colIndex) == w.colWidths[colIndex]

setWidth(w, colIndex, width) ==
    [w EXCEPT !.colWidths = [w.colWidths EXCEPT ![colIndex] = width]]

getHeight(w, rowIndex) == w.rowHeights[rowIndex]

setHeight(w, rowIndex, height) ==
    [w EXCEPT !.rowHeights = [w.rowHeights EXCEPT ![rowIndex] = height]]

(***************************************************************************)
(* SelectionManager.  s is the record of its fields.                       *)
(***************************************************************************)
InitSelection ==
    [selectedCell |-> NullPoint, selectedRow |-> Null, selectedCol |-> Null,
     dragStart |-> NullPoint, dragEnd |-> NullPoint, dragging |-> FALSE,
     dragRect |-> NullRect, dragRange |-> NullRect,
     selectedRows |-> <<>>, selectedColumns |-> <<>>]

clear(s) ==
    [s EXCEPT !.selectedCell = NullPoint, !.selectedRow = Null, !.selectedCol = Null,
              !.dragStart = NullPoint, !.dragEnd = NullPoint, !.dragging = FALSE,
              !.dragRect = NullRect]

clearSelection(s) == clear(s)

isDragging(s) == s.dragging

selectCell(s, row, col) == [clear(s) EXCEPT !.selectedCell = Point(row, col)]

selectRow(s, row) == [clear(s) EXCEPT !.selectedRow = row]

selectColumns(s, startCol, endCol) ==
    [s EXCEPT !.selectedCell = NullPoint, !.selectedRow = Null, !.selectedCol = Null,
              !.dragRange = [startRow |-> Null, endRow |-> Null,
                             startCol |-> startCol, endCol |-> endCol]]

selectColumn(s, col) == [clear(s) EXCEPT !.selectedCol = col]

startDrag(s, row, col) ==
    [clear(s) EXCEPT !.dragging = TRUE, !.dragStart = Point(row, col),
                     !.dragEnd = Point(row, col)]

updateDrag_Unguarded(s, row, col) == [s EXCEPT !.dragEnd = Point(row, col)]

updateDrag(s, row, col) ==
    IF ~s.dragging \/ s.dragStart = NullPoint
    THEN s
    ELSE [s EXCEPT !.dragEnd = Point(row, col)]

NormRect_AnchorFirst(a, b) ==
    [startRow |-> a.row, endRow |-> b.row, startCol |-> a.col, endCol |-> b.col]

NormRect(a, b) ==
    [startRow |-> Min(a.row, b.row), endRow |-> Max(a.row, b.row),
     startCol |-> Min(a.col, b.col), endCol |-> Max(a.col, b.col)]

endDrag(s) ==
    LET t == [s EXCEPT !.dragging = FALSE]
    IN  IF s.dragStart # NullPoint /\ s.dragEnd # NullPoint
        THEN [t EXCEPT !.dragRect = NormRect(s.dragStart, s.dragEnd)]
        ELSE t

getDragRect(s) ==
    IF ~s.dragging /\ s.dragRect # NullRect
    THEN s.dragRect
    ELSE IF s.dragStart = NullPoint \/ s.dragEnd = NullPoint
         THEN NullRect
         ELSE NormRect(s.dragStart, s.dragEnd)

(***************************************************************************)
(* Cell and the sparse store.  A Cell object is identified by the          *)
(* coordinate it was created at; the store is a function whose domain is   *)
(* the set of occupied coordinates.  The store of the source is a Map of   *)
(* row Maps: grid.rowMaps is the set of rows that have a row Map (which    *)
(* may hold no cell), the key set of the outer Map.                        *)
(***************************************************************************)
NoFormula == ""

NewCell ==
    [value |-> "", formula |-> NoFormula,
     fontSize |-> DEFAULT_FONT_SIZE, isBold |-> FALSE, isItalic |-> FALSE]

hasCell(w, row, col) == <<row, col>> \in DOMAIN w.cells

NullCell ==
    [value |-> "", formula |-> NoFormula, fontSize |-> Null, isBold |-> FALSE, isItalic |-> FALSE]

getCellIfExists_ReturnsNew(w, row, col) ==
    IF hasCell(w, row, col) THEN w.cells[<<row, col>>] ELSE NewCell

getCellIfExists(w, row, col) ==
    IF hasCell(w, row, col) THEN w.cells[<<row, col>>] ELSE NullCell

getCellValueIfExists(w, row, col) ==
    IF hasCell(w, row, col) THEN w.cells[<<row, col>>].value ELSE ""

getCell(w, row, col) ==
    IF hasCell(w, row, col)
    THEN w
    ELSE [w EXCEPT !.cells = (<<row, col>> :> NewCell) @@ w.cells,
                   !.grid.rowMaps = @ \cup {row}]

countCreatedCells(w) == Cardinality(DOMAIN w.cells)

(***************************************************************************)
(* Commands.  One record shape for every class: kind names the class, row  *)
(* and col the track or the Cell the command refers to, and the old/new    *)
(* fields hold the values the class stores (the others stay at a default). *)
(***************************************************************************)
Cmd(kind, row, col, oldSize, newSize, oldFlag, newFlag, oldValue, newValue, children) ==
    [kind |-> kind, row |-> row, col |-> col, oldSize |-> oldSize, newSize |-> newSize,
     oldFlag |-> oldFlag, newFlag |-> newFlag, oldValue |-> oldValue, newValue |-> newValue,
     children |-> children]

ResizeRowCommand(row, oldHeight, newHeight) ==
    Cmd("ResizeRow", row, Null, oldHeight, newHeight, FALSE, FALSE, "", "", <<>>)

ResizeColumnCommand(col, oldWidth, newWidth) ==
    Cmd("ResizeColumn", Null, col, oldWidth, newWidth, FALSE, FALSE, "", "", <<>>)

updateNewSize(c, newSize) == [c EXCEPT !.newSize = newSize]

BoldCommand(w, row, col, newBold) ==
    Cmd("Bold", row, col, 0, 0, w.cells[<<row, col>>].isBold, newBold, "", "", <<>>)

ItalicCommand(w, row, col, newItalic) ==
    Cmd("Italic", row, col, 0, 0, w.cells[<<row, col>>].isItalic, newItalic, "", "", <<>>)

FontSizeCommand(w, row, col, newSize) ==
    Cmd("FontSize", row, col, w.cells[<<row, col>>].fontSize, newSize, FALSE, FALSE, "", "", <<>>)

EditCellCommand(row, col, oldValue, newValue) ==
    Cmd("EditCell", row, col, 0, 0, FALSE, FALSE, oldValue, newValue, <<>>)

CompositeCommand(commands) ==
    Cmd("Composite", Null, Null, 0, 0, FALSE, FALSE, "", "", commands)

setCell(w, c, field, v) ==
    IF hasCell(w, c.row, c.col)
    THEN [w EXCEPT !.cells = [w.cells EXCEPT ![<<c.row, c.col>>] = [@ EXCEPT ![field] = v]]]
    ELSE w

ResizeRowCommand_execute(w, c) == setHeight(w, c.row, c.newSize)
ResizeRowCommand_undo(w, c) == setHeight(w, c.row, c.oldSize)

ResizeColumnCommand_execute(w, c) == setWidth(w, c.col, c.newSize)
ResizeColumnCommand_undo(w, c) == setWidth(w, c.col, c.oldSize)

BoldCommand_execute(w, c) == setCell(w, c, "isBold", c.newFlag)
BoldCommand_undo(w, c) == setCell(w, c, "isBold", c.oldFlag)
BoldCommand_redo(w, c) == setCell(w, c, "isBold", c.newFlag)

ItalicCommand_execute(w, c) == setCell(w, c, "isItalic", c.newFlag)
ItalicCommand_undo(w, c) == setCell(w, c, "isItalic", c.oldFlag)
ItalicCommand_redo(w, c) == setCell(w, c, "isItalic", c.newFlag)

FontSizeCommand_execute(w, c) == setCell(w, c, "fontSize", c.newSize)
FontSizeCommand_undo(w, c) == setCell(w, c, "fontSize", c.oldSize)
FontSizeCommand_redo(w, c) == setCell(w, c, "fontSize", c.newSize)

EditCellCommand_execute(w, c) == setCell(w, c, "value", c.newValue)
EditCellCommand_undo(w, c) == setCell(w, c, "value", c.oldValue)

Leaf_execute(w, c) ==
    CASE c.kind = "ResizeRow" -> ResizeRowCommand_execute(w, c)
      [] c.kind = "ResizeColumn" -> ResizeColumnCommand_execute(w, c)
      [] c.kind = "Bold" -> BoldCommand_execute(w, c)
      [] c.kind = "Italic" -> ItalicCommand_execute(w, c)
      [] c.kind = "FontSize" -> FontSizeCommand_execute(w, c)
      [] c.kind = "EditCell" -> EditCellCommand_execute(w, c)
      [] OTHER -> w

Leaf_undo(w, c) ==
    CASE c.kind = "ResizeRow" -> ResizeRowCommand_undo(w, c)
      [] c.kind = "ResizeColumn" -> ResizeColumnCommand_undo(w, c)
      [] c.kind = "Bold" -> BoldCommand_undo(w, c)
      [] c.kind = "Italic" -> ItalicCommand_undo(w, c)
      [] c.kind = "FontSize" -> FontSizeCommand_undo(w, c)
      [] c.kind = "EditCell" -> EditCellCommand_undo(w, c)
      [] OTHER -> w

Leaf_redo(w, c) ==
    CASE c.kind = "Bold" -> BoldCommand_redo(w, c)
      [] c.kind = "Italic" -> ItalicCommand_redo(w, c)
      [] c.kind = "FontSize" -> FontSizeCommand_redo(w, c)
      [] OTHER -> w

RECURSIVE ExecuteInOrder(_, _)
ExecuteInOrder(w, commands) ==
    IF commands = <<>>
    THEN w
    ELSE ExecuteInOrder(Leaf_execute(w, Head(commands)), Tail(commands))

RECURSIVE UndoInOrder(_, _)
UndoInOrder(w, commands) ==
    IF commands = <<>>
    THEN w
    ELSE UndoInOrder(Leaf_undo(w, Head(commands)), Tail(commands))

RECURSIVE UndoInReverse(_, _)
UndoInReverse(w, commands) ==
    IF commands = <<>>
    THEN w
    ELSE UndoInReverse(Leaf_undo(w, commands[Len(commands)]),
                       SubSeq(commands, 1, Len(commands) - 1))

CompositeCommand_execute(w, c) == ExecuteInOrder(w, c.children)
CompositeCommand_undo(w, c) == UndoInReverse(w, c.children)

\* A paste writes the copied texts cell by cell from its anchor; children
\* holds one value change per written cell.
RECURSIVE CreateTargets(_, _)
CreateTargets(w, commands) ==
    IF commands = <<>>
    THEN w
    ELSE CreateTargets(getCell(w, Head(commands).row, Head(commands).col), Tail(commands))

PasteCommand_execute(w, c) == ExecuteInOrder(CreateTargets(w, c.children), c.children)
PasteCommand_undo(w, c) == UndoInReverse(w, c.children)

Command_execute(w, c) ==
    IF c.kind = "Composite" THEN CompositeCommand_execute(w, c)
    ELSE IF c.kind = "Paste" THEN PasteCommand_execute(w, c)
    ELSE Leaf_execute(w, c)

Command_undo(w, c) ==
    IF c.kind = "Composite" THEN CompositeCommand_undo(w, c)
    ELSE IF c.kind = "Paste" THEN PasteCommand_undo(w, c)
    ELSE Leaf_undo(w, c)

Command_redo(w, c) ==
    IF c.kind = "Composite" THEN CompositeCommand_execute(w, c)
    ELSE IF c.kind = "Paste" THEN PasteCommand_execute(w, c)
    ELSE Leaf_redo(w, c)

Call(method, c) == [method |-> method, command |-> c]

NoCommand == Cmd("None", Null, Null, 0, 0, FALSE, FALSE, "", "", <<>>)

Top(stack) == stack[Len(stack)]
Pop(stack) == SubSeq(stack, 1, Len(stack) - 1)

(***************************************************************************)
(* CommandManager.  Each method logs itself and the Command method it      *)
(* invokes in calls.                                                       *)
(***************************************************************************)
CommandManager_execute_KeepsRedo(w, command) ==
    LET w1 == Command_execute(w, command)
    IN  [w1 EXCEPT !.calls = w.calls \o <<Call("CommandManager.execute", command),
                                          Call("execute", command)>>,
                   !.undoStack = Append(w.undoStack, command)]

CommandManager_execute(w, command) ==
    LET w1 == Command_execute(w, command)
    IN  [w1 EXCEPT !.calls = w.calls \o <<Call("CommandManager.execute", command),
                                          Call("execute", command)>>,
                   !.undoStack = Append(w.undoStack, command),
                   !.redoStack = <<>>]

CommandManager_undo_DropsCommand(w) ==
    IF w.undoStack = <<>>
    THEN [w EXCEPT !.calls = Append(w.calls, Call("CommandManager.undo", NoCommand))]
    ELSE LET command == Top(w.undoStack)
             w1 == Command_undo(w, command)
         IN  [w1 EXCEPT !.calls = w.calls \o <<Call("CommandManager.undo", NoCommand),
                                               Call("undo", command)>>,
                        !.undoStack = Pop(w.undoStack)]

CommandManager_undo(w) ==
    IF w.undoStack = <<>>
    THEN [w EXCEPT !.calls = Append(w.calls, Call("CommandManager.undo", NoCommand))]
    ELSE LET command == Top(w.undoStack)
             w1 == Command_undo(w, command)
         IN  [w1 EXCEPT !.calls = w.calls \o <<Call("CommandManager.undo", NoCommand),
                                               Call("undo", command)>>,
                        !.undoStack = Pop(w.undoStack),
                        !.redoStack = Append(w.redoStack, command)]

CommandManager_redo_ClearsRedo(w) ==
    IF w.redoStack = <<>>
    THEN [w EXCEPT !.calls = Append(w.calls, Call("CommandManager.redo", NoCommand))]
    ELSE LET command == Top(w.redoStack)
             w1 == Command_execute(w, command)
         IN  [w1 EXCEPT !.calls = w.calls \o <<Call("CommandManager.redo", NoCommand),
                                               Call("execute", command)>>,
                        !.redoStack = <<>>,
                        !.undoStack = Append(w.undoStack, command)]

CommandManager_redo(w) ==
    IF w.redoStack = <<>>
    THEN [w EXCEPT !.calls = Append(w.calls, Call("CommandManager.redo", NoCommand))]
    ELSE LET command == Top(w.redoStack)
             w1 == Command_execute(w, command)
         IN  [w1 EXCEPT !.calls = w.calls \o <<Call("CommandManager.redo", NoCommand),
                                               Call("execute", command)>>,
                        !.redoStack = Pop(w.redoStack),
                        !.undoStack = Append(w.undoStack, command)]

CommandManager_clear(w) == [w EXCEPT !.undoStack = <<>>, !.redoStack = <<>>]

(***************************************************************************)
(* The world a handler starts from, and the commit of the world it         *)
(* returns.  The call log starts empty at every step, and so do the        *)
(* record of the store accessor called and the snapshot of the store and   *)
(* the row track that a row insert takes before it acts.                   *)
(***************************************************************************)
Ret(method, row, col, cell, text, count) ==
    [method |-> method, row |-> row, col |-> col, cell |-> cell, text |-> text,
     count |-> count]

NoReturn == Ret("none", Null, Null, NullCell, "", Null)

NoSnapshot == [at |-> Null, cells |-> <<>>, rowHeights |-> <<>>]

NoPointer == [down |-> <<>>, at |-> <<>>, farX |-> FALSE, farY |-> FALSE]

World ==
    [colWidths |-> colWidths, rowHeights |-> rowHeights, cells |-> cells,
     selMgr |-> selMgr, undoStack |-> undoStack, redoStack |-> redoStack,
     grid |-> grid, calls |-> <<>>, tracksAtDown |-> tracksAtDown,
     event |-> "call", ret |-> NoReturn,
     storeLog |-> [storeLog EXCEPT !.beforeInsert = NoSnapshot], pointer |-> pointer]

Commit(w) ==
    /\ colWidths' = w.colWidths
    /\ rowHeights' = w.rowHeights
    /\ cells' = w.cells
    /\ selMgr' = w.selMgr
    /\ undoStack' = w.undoStack
    /\ redoStack' = w.redoStack
    /\ grid' = w.grid
    /\ calls' = w.calls
    /\ tracksAtDown' = w.tracksAtDown
    /\ event' = w.event
    /\ ret' = w.ret
    /\ storeLog' = w.storeLog
    /\ pointer' = w.pointer

NullMouse == [x |-> Null, y |-> Null]

NoClipboard == <<>>

InitGrid ==
    [suppressRender |-> FALSE, renderScheduled |-> FALSE, pendingFrames |-> 0,
     rowMaps |-> {},
     isMouseDown |-> FALSE, isColHeaderDrag |-> FALSE, isRowHeaderDrag |-> FALSE,
     dragStartCell |-> NullPoint, dragStartColHeader |-> Null, dragStartRowHeader |-> Null,
     dragStartMouse |-> NullMouse,
     resizingRow |-> Null, resizingCol |-> Null,
     dragStartX |-> 0, dragStartY |-> 0, originalSize |-> 0,
     currentResizeCommand |-> NoCommand, isResizing |-> FALSE,
     colHeaderDragHasDragged |-> FALSE, rowHeaderDragHasDragged |-> FALSE,
     isTopLeftHovered |-> FALSE, editingCell |-> NullPoint, editorValue |-> "",
     animating |-> FALSE, clipboard |-> NoClipboard,
     scrollLeft |-> 0, scrollTop |-> 0,
     clientWidth |-> 400, clientHeight |-> 100,
     buttonDown |-> FALSE]

DefaultTracks ==
    [colWidths |-> [c \in ColIdx |-> DEFAULT_COL_WIDTH],
     rowHeights |-> [r \in RowIdx |-> DEFAULT_ROW_HEIGHT]]

Init ==
    /\ colWidths = [c \in ColIdx |-> DEFAULT_COL_WIDTH]
    /\ rowHeights = [r \in RowIdx |-> DEFAULT_ROW_HEIGHT]
    /\ cells = <<>>
    /\ selMgr = InitSelection
    /\ undoStack = <<>>
    /\ redoStack = <<>>
    /\ grid = InitGrid
    /\ calls = <<>>
    /\ tracksAtDown = DefaultTracks
    /\ event = "call"
    /\ ret = NoReturn
    /\ storeLog = [lastText |-> <<>>, opened |-> {}, beforeInsert |-> NoSnapshot]
    /\ pointer = NoPointer

(***************************************************************************)
(* SpecSel: the SelectionManager driven through its own methods.           *)
(***************************************************************************)
WithSel(s) == Commit([World EXCEPT !.selMgr = s])

CallClear == WithSel(clear(selMgr))
CallSelectCell == \E r \in RowIdx, c \in ColIdx : WithSel(selectCell(selMgr, r, c))
CallSelectRow == \E r \in RowIdx : WithSel(selectRow(selMgr, r))
CallSelectColumn == \E c \in ColIdx : WithSel(selectColumn(selMgr, c))
CallSelectColumns == \E a \in ColIdx, b \in ColIdx : WithSel(selectColumns(selMgr, a, b))
CallStartDrag == \E r \in RowIdx, c \in ColIdx : WithSel(startDrag(selMgr, r, c))
CallUpdateDrag == \E r \in RowIdx, c \in ColIdx : WithSel(updateDrag(selMgr, r, c))
CallEndDrag == WithSel(endDrag(selMgr))

NextSel ==
    \/ CallClear
    \/ CallSelectCell
    \/ CallSelectRow
    \/ CallSelectColumn
    \/ CallSelectColumns
    \/ CallStartDrag
    \/ CallUpdateDrag
    \/ CallEndDrag

SpecSel == Init /\ [][NextSel]_vars

(***************************************************************************)
(* SpecTrack: the size tracks driven through their own mutators.           *)
(***************************************************************************)
RequestedWidths == {-5, 10, MIN_COL_WIDTH, 120}
RequestedHeights == {-5, 10, MIN_ROW_HEIGHT, 45}

CallSetWidth == \E i \in ColIdx, s \in RequestedWidths : Commit(setWidth(World, i, s))
CallSetHeight == \E i \in RowIdx, s \in RequestedHeights : Commit(setHeight(World, i, s))

NextTrack ==
    \/ CallSetWidth
    \/ CallSetHeight

SpecTrack == Init /\ [][NextTrack]_vars

(***************************************************************************)
(* Properties of the SelectionManager.                                     *)
(***************************************************************************)
SelCleared(s, keep) ==
    /\ "selectedCell" \in keep \/ s.selectedCell = NullPoint
    /\ "selectedRow" \in keep \/ s.selectedRow = Null
    /\ "selectedCol" \in keep \/ s.selectedCol = Null
    /\ "dragStart" \in keep \/ s.dragStart = NullPoint
    /\ "dragEnd" \in keep \/ s.dragEnd = NullPoint
    /\ "dragging" \in keep \/ s.dragging = FALSE
    /\ "dragRect" \in keep \/ s.dragRect = NullRect

\* C9: every select* operation (selectCell, selectRow, selectColumn,
\* selectColumns) and startDrag first clears all prior selection state: after
\* the call the selected cell, row, column, drag anchor, drag focus, dragging
\* flag and retained drag rectangle are all reset, except for the fields the
\* operation itself sets.
C9_SelectClearsPriorState ==
    [][ /\ CallSelectCell => SelCleared(selMgr', {"selectedCell"})
        /\ CallSelectRow => SelCleared(selMgr', {"selectedRow"})
        /\ CallSelectColumn => SelCleared(selMgr', {"selectedCol"})
        /\ CallSelectColumns => SelCleared(selMgr', {})
        /\ CallStartDrag => SelCleared(selMgr', {"dragStart", "dragEnd", "dragging"})
      ]_vars

\* C10: updateDrag(row, col) changes state only while a drag is in progress:
\* when dragging is false the whole selection state is unchanged; while
\* dragging only the focus point (dragEnd) is overwritten, with the point
\* given, and the anchor (dragStart) set by startDrag is kept.
C10_UpdateDragOnlyMovesFocus ==
    [][ \A r \in RowIdx, c \in ColIdx :
          WithSel(updateDrag(selMgr, r, c)) =>
            IF ~selMgr.dragging
            THEN selMgr' = selMgr
            ELSE /\ selMgr'.dragStart = selMgr.dragStart
                 /\ selMgr'.dragEnd = Point(r, c)
                 /\ [selMgr' EXCEPT !.dragEnd = selMgr.dragEnd] = selMgr
      ]_vars

C10_Witness ==
    /\ selMgr.dragging
    /\ selMgr.dragStart # NullPoint
    /\ selMgr.dragEnd # selMgr.dragStart

\* C11: whenever getDragRect() returns a rectangle, during a drag or after it
\* ended, the rectangle is normalized (startRow <= endRow, startCol <= endCol)
\* and its bounds are the smaller and the larger row and column of the anchor
\* and the last focus point, whatever the direction of the drag.
C11_DragRectNormalized ==
    LET rect == getDragRect(selMgr)
        a == selMgr.dragStart
        b == selMgr.dragEnd
    IN  rect # NullRect =>
          /\ rect.startRow <= rect.endRow
          /\ rect.startCol <= rect.endCol
          /\ a # NullPoint /\ b # NullPoint
          /\ rect.startRow = (IF a.row <= b.row THEN a.row ELSE b.row)
          /\ rect.endRow = (IF a.row <= b.row THEN b.row ELSE a.row)
          /\ rect.startCol = (IF a.col <= b.col THEN a.col ELSE b.col)
          /\ rect.endCol = (IF a.col <= b.col THEN b.col ELSE a.col)

C11_Witness ==
    /\ ~selMgr.dragging
    /\ selMgr.dragRect # NullRect
    /\ getDragRect(selMgr) = selMgr.dragRect
    /\ selMgr.dragStart.row > selMgr.dragEnd.row
    /\ selMgr.dragStart.col > selMgr.dragEnd.col

\* C12: endDrag sets the dragging flag to false and getDragRect() then returns
\* the rectangle of the completed drag; updateDrag and endDrag calls leave it
\* unchanged; the next selection-changing call (clear, selectCell, selectRow,
\* selectColumn, selectColumns, startDrag) discards the retained rectangle.
C12_RectRetainedUntilSelectionChange ==
    [][ /\ CallEndDrag =>
              /\ ~selMgr'.dragging
              /\ (selMgr.dragging /\ selMgr.dragStart # NullPoint /\ selMgr.dragEnd # NullPoint)
                    => getDragRect(selMgr') = getDragRect(selMgr)
        /\ (~selMgr.dragging /\ selMgr.dragRect # NullRect /\ (CallUpdateDrag \/ CallEndDrag))
              => getDragRect(selMgr') = getDragRect(selMgr)
        /\ ( /\ ~selMgr.dragging /\ selMgr.dragRect # NullRect
             /\ \/ CallClear \/ CallSelectCell \/ CallSelectRow
                \/ CallSelectColumn \/ CallSelectColumns \/ CallStartDrag )
              => selMgr'.dragRect = NullRect
      ]_vars

(***************************************************************************)
(* Properties of the size tracks.                                          *)
(***************************************************************************)
\* C7: the size-track mutator itself clamps: setWidth(i, s) or setHeight(i, s)
\* with s below the minimum stores the minimum, and any other s is stored as
\* given, for every index i and every requested size s.
C7_MutatorClamps ==
    [][ /\ \A i \in ColIdx, s \in RequestedWidths :
             Commit(setWidth(World, i, s)) => colWidths'[i] = Max(s, MIN_COL_WIDTH)
        /\ \A i \in RowIdx, s \in RequestedHeights :
             Commit(setHeight(World, i, s)) => rowHeights'[i] = Max(s, MIN_ROW_HEIGHT)
      ]_vars

(***************************************************************************)
(* SpecCmd: the CommandManager driven through its own methods, from a      *)
(* store that an import has filled at two coordinates.  The commands are   *)
(* built the way Grid builds them: a resize command holds the size of the  *)
(* track when it is built, a cell command reads the old value of its Cell. *)
(***************************************************************************)
ImportedCell == [NewCell EXCEPT !.value = "x"]

ImportedStore == (<<0, 0>> :> ImportedCell) @@ (<<0, 1>> :> ImportedCell)

InitCmd ==
    /\ colWidths = [c \in ColIdx |-> DEFAULT_COL_WIDTH]
    /\ rowHeights = [r \in RowIdx |-> DEFAULT_ROW_HEIGHT]
    /\ cells = ImportedStore
    /\ selMgr = InitSelection
    /\ undoStack = <<>>
    /\ redoStack = <<>>
    /\ grid = [InitGrid EXCEPT !.rowMaps = {p[1] : p \in DOMAIN ImportedStore}]
    /\ calls = <<>>
    /\ tracksAtDown = DefaultTracks
    /\ event = "call"
    /\ ret = NoReturn
    /\ storeLog = [lastText |-> <<>>, opened |-> {}, beforeInsert |-> NoSnapshot]
    /\ pointer = NoPointer

StoredCoords(w) == DOMAIN w.cells

BoldAll(w, b) ==
    LET RECURSIVE Build(_)
        Build(S) ==
            IF S = {} THEN <<>>
            ELSE LET p == CHOOSE q \in S : \A o \in S : q[1] < o[1] \/ (q[1] = o[1] /\ q[2] <= o[2])
                 IN  <<BoldCommand(w, p[1], p[2], b)>> \o Build(S \ {p})
    IN  CompositeCommand(Build(StoredCoords(w)))

CandidateCommands(w) ==
    {ResizeColumnCommand(c, getWidth(w, c), 160) : c \in ColIdx}
    \cup {ResizeRowCommand(r, getHeight(w, r), 50) : r \in RowIdx}
    \cup {BoldCommand(w, p[1], p[2], TRUE) : p \in StoredCoords(w)}
    \cup {ItalicCommand(w, p[1], p[2], TRUE) : p \in StoredCoords(w)}
    \cup {FontSizeCommand(w, p[1], p[2], 18) : p \in StoredCoords(w)}
    \cup {EditCellCommand(p[1], p[2], w.cells[p].value, "") : p \in StoredCoords(w)}
    \cup {BoldAll(w, TRUE)}

CallExecute ==
    /\ Len(undoStack) < MaxHistory
    /\ \E command \in CandidateCommands(World) : Commit(CommandManager_execute(World, command))

CallUndo == Commit(CommandManager_undo(World))

CallRedo == Commit(CommandManager_redo(World))

NextCmd ==
    \/ CallExecute
    \/ CallUndo
    \/ CallRedo

SpecCmd == InitCmd /\ [][NextCmd]_vars

(***************************************************************************)
(* Properties of the CommandManager.                                       *)
(***************************************************************************)
Invoked(log, method) == log # <<>> /\ log[1].method = method

Data(w) == <<w.cells, w.colWidths, w.rowHeights>>
DataNow == <<cells, colWidths, rowHeights>>

\* C2: CommandManager.execute(c) calls c.execute() exactly once, appends c as
\* the new top of the undo stack (all earlier entries unchanged, in order),
\* and leaves the redo stack empty, whatever the redo stack held before.
C2_ExecutePushesAndClearsRedo ==
    [][ Invoked(calls', "CommandManager.execute") =>
          LET c == calls'[1].command
          IN  /\ calls' = <<Call("CommandManager.execute", c), Call("execute", c)>>
              /\ DataNow' = Data(Command_execute(World, c))
              /\ undoStack' = Append(undoStack, c)
              /\ redoStack' = <<>>
      ]_vars

C2_Witness ==
    /\ Invoked(calls, "CommandManager.execute")
    /\ Len(undoStack) = 2
    /\ Top(undoStack) = calls[1].command
    /\ Top(undoStack) # undoStack[1]
    /\ redoStack = <<>>

\* C3: CommandManager.undo(): when the undo stack is empty it changes nothing
\* (store, tracks, both stacks unchanged); otherwise it removes exactly the
\* most recently pushed command from the undo stack, calls its undo() once,
\* and pushes it on the redo stack.
C3_UndoPopsAndPushesRedo ==
    [][ Invoked(calls', "CommandManager.undo") =>
          IF undoStack = <<>>
          THEN /\ UNCHANGED <<cells, colWidths, rowHeights, undoStack, redoStack>>
               /\ Len(calls') = 1
          ELSE LET c == Top(undoStack)
               IN  /\ calls' = <<Call("CommandManager.undo", NoCommand), Call("undo", c)>>
                   /\ DataNow' = Data(Command_undo(World, c))
                   /\ undoStack' = Pop(undoStack)
                   /\ redoStack' = Append(redoStack, c)
      ]_vars

C3_Witness ==
    /\ Invoked(calls, "CommandManager.undo")
    /\ Len(calls) = 2
    /\ Len(redoStack) = 2
    /\ Top(redoStack) = calls[2].command
    /\ undoStack = <<>>

\* C4: CommandManager.redo(): when the redo stack is empty it changes
\* nothing; otherwise it pops the most recently undone command, re-applies it
\* by calling its execute() (not a separate redo()), and pushes it back on
\* the undo stack without clearing the rest of the redo stack.
C4_RedoReExecutes ==
    [][ Invoked(calls', "CommandManager.redo") =>
          IF redoStack = <<>>
          THEN /\ UNCHANGED <<cells, colWidths, rowHeights, undoStack, redoStack>>
               /\ Len(calls') = 1
          ELSE LET c == Top(redoStack)
               IN  /\ calls' = <<Call("CommandManager.redo", NoCommand), Call("execute", c)>>
                   /\ DataNow' = Data(Command_execute(World, c))
                   /\ redoStack' = Pop(redoStack)
                   /\ undoStack' = Append(undoStack, c)
      ]_vars

C4_Witness ==
    /\ Invoked(calls, "CommandManager.redo")
    /\ Len(calls) = 2
    /\ redoStack # <<>>
    /\ undoStack # <<>>
    /\ Top(undoStack) = calls[2].command

(***************************************************************************)
(* SelectionManager: the explicit row and column collections.              *)
(***************************************************************************)
getSelectedRows(s) == s.selectedRows
getSelectedColumns(s) == s.selectedColumns

clearSelectedRows(s) == [s EXCEPT !.selectedRows = <<>>]
clearSelectedColumns(s) == [s EXCEPT !.selectedColumns = <<>>]

SeqHas(seq, v) == \E i \in 1 .. Len(seq) : seq[i] = v

addSelectedRow(s, row) ==
    IF SeqHas(s.selectedRows, row) THEN s
    ELSE [s EXCEPT !.selectedRows = Append(s.selectedRows, row)]

addSelectedColumn(s, col) ==
    IF SeqHas(s.selectedColumns, col) THEN s
    ELSE [s EXCEPT !.selectedColumns = Append(s.selectedColumns, col)]

setSelectedRows(s, rows) == [s EXCEPT !.selectedRows = rows]
setSelectedColumns(s, cols) == [s EXCEPT !.selectedColumns = cols]

selectAll(s) ==
    [clear(s) EXCEPT !.selectedRows = <<>>, !.selectedColumns = <<>>,
                     !.dragRect = [startRow |-> 0, endRow |-> ROWS - 1,
                                   startCol |-> 0, endCol |-> COLS - 1]]

(***************************************************************************)
(* Grid: scheduling, hit-testing and the pointer handlers.  An event is a  *)
(* record [clientX, clientY, button]; the canvas sits at the origin of the *)
(* client area.  pendingFrames counts the callbacks scheduleRender handed  *)
(* to requestAnimationFrame that have not run yet; renderFrame is such a   *)
(* callback: it paints (a "render" entry in the call log) and resets the   *)
(* flag.                                                                   *)
(***************************************************************************)
Range(a, b) == [i \in 1 .. (b - a + 1) |-> a + i - 1]

scheduleRender_NoCoalesce(w) ==
    IF w.grid.suppressRender
    THEN w
    ELSE [w EXCEPT !.grid.renderScheduled = TRUE, !.grid.pendingFrames = @ + 1]

scheduleRender(w) ==
    IF w.grid.renderScheduled \/ w.grid.suppressRender
    THEN w
    ELSE [w EXCEPT !.grid.renderScheduled = TRUE, !.grid.pendingFrames = @ + 1]

renderFrame(w) ==
    [w EXCEPT !.calls = Append(@, Call("render", NoCommand)),
              !.grid.renderScheduled = FALSE,
              !.grid.pendingFrames = @ - 1]

getMousePos(w, evt) ==
    [x |-> evt.clientX + w.grid.scrollLeft, y |-> evt.clientY + w.grid.scrollTop]

RECURSIVE WalkColumns_Inclusive(_, _, _, _)
WalkColumns_Inclusive(w, offsetX, c, x) ==
    IF c >= COLS
    THEN [col |-> COLS - 1, within |-> 0]
    ELSE IF offsetX <= x + getWidth(w, c)
         THEN [col |-> c, within |-> offsetX - x]
         ELSE WalkColumns_Inclusive(w, offsetX, c + 1, x + getWidth(w, c))

RECURSIVE WalkColumns(_, _, _, _)
WalkColumns(w, offsetX, c, x) ==
    IF c >= COLS
    THEN [col |-> COLS - 1, within |-> 0]
    ELSE IF offsetX < x + getWidth(w, c)
         THEN [col |-> c, within |-> offsetX - x]
         ELSE WalkColumns(w, offsetX, c + 1, x + getWidth(w, c))

findColumnByOffset(w, offsetX) == WalkColumns(w, offsetX, 0, 0)

RECURSIVE WalkRows(_, _, _, _)
WalkRows(w, offsetY, r, y) ==
    IF r >= ROWS
    THEN [row |-> ROWS - 1, within |-> 0]
    ELSE IF offsetY < y + getHeight(w, r)
         THEN [row |-> r, within |-> offsetY - y]
         ELSE WalkRows(w, offsetY, r + 1, y + getHeight(w, r))

findRowByOffset(w, offsetY) == WalkRows(w, offsetY, 0, 0)

onMouseDown(w, evt) ==
    LET mouseX == evt.clientX
        mouseY == evt.clientY
        pos == getMousePos(w, evt)
        hitCol == findColumnByOffset(w, pos.x - HEADER_SIZE)
        hitRow == findRowByOffset(w, pos.y - HEADER_SIZE)
    IN  IF mouseY < HEADER_SIZE /\ mouseX >= HEADER_SIZE
        THEN IF hitCol.within >= getWidth(w, hitCol.col) - RESIZE_GUTTER
             THEN [w EXCEPT !.grid.resizingCol = hitCol.col,
                            !.grid.dragStartX = evt.clientX,
                            !.grid.originalSize = getWidth(w, hitCol.col),
                            !.grid.isResizing = TRUE,
                            !.grid.currentResizeCommand =
                                ResizeColumnCommand(hitCol.col, getWidth(w, hitCol.col),
                                                    getWidth(w, hitCol.col))]
             ELSE [w EXCEPT !.grid.isColHeaderDrag = TRUE,
                            !.grid.isMouseDown = TRUE,
                            !.grid.dragStartColHeader = hitCol.col,
                            !.grid.dragStartMouse = [x |-> evt.clientX, y |-> evt.clientY],
                            !.grid.colHeaderDragHasDragged = FALSE,
                            !.selMgr = clearSelectedRows(w.selMgr)]
        ELSE IF mouseX < HEADER_SIZE /\ mouseY >= HEADER_SIZE
        THEN IF hitRow.within >= getHeight(w, hitRow.row) - RESIZE_GUTTER
             THEN [w EXCEPT !.grid.resizingRow = hitRow.row,
                            !.grid.dragStartY = evt.clientY,
                            !.grid.originalSize = getHeight(w, hitRow.row),
                            !.grid.isResizing = TRUE,
                            !.grid.currentResizeCommand =
                                ResizeRowCommand(hitRow.row, getHeight(w, hitRow.row),
                                                 getHeight(w, hitRow.row))]
             ELSE [w EXCEPT !.grid.isRowHeaderDrag = TRUE,
                            !.grid.isMouseDown = TRUE,
                            !.grid.dragStartRowHeader = hitRow.row,
                            !.grid.dragStartMouse = [x |-> evt.clientX, y |-> evt.clientY],
                            !.grid.rowHeaderDragHasDragged = FALSE,
                            !.selMgr = clearSelectedColumns(w.selMgr)]
        ELSE IF mouseX >= HEADER_SIZE /\ mouseY >= HEADER_SIZE /\ evt.button = 0
        THEN LET s1 == clearSelectedRows(clearSelectedColumns(w.selMgr))
                 w1 == scheduleRender([w EXCEPT !.selMgr = selectCell(s1, hitRow.row, hitCol.col)])
             IN  [w1 EXCEPT !.grid.isMouseDown = TRUE,
                            !.grid.isColHeaderDrag = FALSE,
                            !.grid.isRowHeaderDrag = FALSE,
                            !.grid.dragStartCell = Point(hitRow.row, hitCol.col),
                            !.grid.dragStartMouse = [x |-> evt.clientX, y |-> evt.clientY]]
        ELSE w

InCorner(evt) ==
    /\ evt.clientX >= 0 /\ evt.clientX < rowHeaderWidth
    /\ evt.clientY >= 0 /\ evt.clientY < HEADER_SIZE

onPointerDown_NoCorner(w, evt) == onMouseDown(w, evt)

onPointerDown(w, evt) ==
    IF InCorner(evt)
    THEN scheduleRender([w EXCEPT !.selMgr = selectAll(w.selMgr)])
    ELSE onMouseDown(w, evt)

onMouseMove(w, evt) ==
    LET pos == getMousePos(w, evt)
        g == w.grid
        moved == g.dragStartMouse # NullMouse
        dx == Abs(evt.clientX - g.dragStartMouse.x)
        dy == Abs(evt.clientY - g.dragStartMouse.y)
    IN  IF g.isColHeaderDrag /\ g.isMouseDown /\ g.dragStartColHeader # Null
        THEN LET w1 == IF ~isDragging(w.selMgr) /\ moved /\ dx > DRAG_THRESHOLD
                       THEN [w EXCEPT !.selMgr =
                                        addSelectedColumn(
                                            clearSelectedColumns(
                                                startDrag(w.selMgr, 0, g.dragStartColHeader)),
                                            g.dragStartColHeader),
                                      !.grid.colHeaderDragHasDragged = TRUE]
                       ELSE w
                 col == findColumnByOffset(w1, pos.x - HEADER_SIZE).col
                 startCol == Min(g.dragStartColHeader, col)
                 endCol == Max(g.dragStartColHeader, col)
             IN  IF isDragging(w1.selMgr)
                 THEN scheduleRender(
                          [w1 EXCEPT !.selMgr =
                               setSelectedColumns(updateDrag(w1.selMgr, 0, col),
                                                  Range(startCol, endCol))])
                 ELSE w1
        ELSE IF g.isRowHeaderDrag /\ g.isMouseDown /\ g.dragStartRowHeader # Null
        THEN LET w1 == IF ~isDragging(w.selMgr) /\ moved /\ dy > DRAG_THRESHOLD
                       THEN [w EXCEPT !.selMgr =
                                        addSelectedRow(
                                            clearSelectedRows(
                                                startDrag(w.selMgr, g.dragStartRowHeader, 0)),
                                            g.dragStartRowHeader),
                                      !.grid.rowHeaderDragHasDragged = TRUE]
                       ELSE w
                 row == findRowByOffset(w1, pos.y - HEADER_SIZE).row
                 startRow == Min(g.dragStartRowHeader, row)
                 endRow == Max(g.dragStartRowHeader, row)
             IN  IF isDragging(w1.selMgr)
                 THEN scheduleRender(
                          [w1 EXCEPT !.selMgr =
                               setSelectedRows(updateDrag(w1.selMgr, row, 0),
                                               Range(startRow, endRow))])
                 ELSE w1
        ELSE IF /\ g.isMouseDown /\ g.dragStartCell # NullPoint
                /\ ~g.isColHeaderDrag /\ ~g.isRowHeaderDrag
                /\ pos.x >= HEADER_SIZE /\ pos.y >= HEADER_SIZE
        THEN LET w1 == IF ~isDragging(w.selMgr) /\ moved
                          /\ (dx > DRAG_THRESHOLD \/ dy > DRAG_THRESHOLD)
                       THEN [w EXCEPT !.selMgr =
                                startDrag(w.selMgr, g.dragStartCell.row, g.dragStartCell.col)]
                       ELSE w
                 col == findColumnByOffset(w1, pos.x - HEADER_SIZE).col
                 row == findRowByOffset(w1, pos.y - HEADER_SIZE).row
             IN  IF isDragging(w1.selMgr)
                 THEN scheduleRender([w1 EXCEPT !.selMgr = updateDrag(w1.selMgr, row, col)])
                 ELSE w1
        ELSE w

onPointerMove(w, evt) ==
    LET w1 == IF w.grid.isTopLeftHovered # InCorner(evt)
              THEN scheduleRender([w EXCEPT !.grid.isTopLeftHovered = InCorner(evt)])
              ELSE w
    IN  onMouseMove(w1, evt)

onMouseDrag_CommitsEachMove(w, evt) ==
    LET g == w.grid
        newW == Max(MIN_COL_WIDTH, g.originalSize + (evt.clientX - g.dragStartX))
        newH == Max(MIN_ROW_HEIGHT, g.originalSize + (evt.clientY - g.dragStartY))
    IN  IF g.resizingCol # Null /\ g.isResizing /\ g.currentResizeCommand # NoCommand
        THEN scheduleRender(
                 CommandManager_execute(setWidth(w, g.resizingCol, newW),
                                        updateNewSize(g.currentResizeCommand, newW)))
        ELSE IF g.resizingRow # Null /\ g.isResizing /\ g.currentResizeCommand # NoCommand
        THEN scheduleRender(
                 CommandManager_execute(setHeight(w, g.resizingRow, newH),
                                        updateNewSize(g.currentResizeCommand, newH)))
        ELSE w

onMouseDrag_NoFloor(w, evt) ==
    LET g == w.grid
        newW == g.originalSize + (evt.clientX - g.dragStartX)
        newH == g.originalSize + (evt.clientY - g.dragStartY)
        w1 == IF g.resizingCol # Null /\ g.isResizing /\ g.currentResizeCommand # NoCommand
              THEN scheduleRender(
                       [setWidth(w, g.resizingCol, newW)
                            EXCEPT !.grid.currentResizeCommand = updateNewSize(@, newW)])
              ELSE w
    IN  IF g.resizingRow # Null /\ g.isResizing /\ w1.grid.currentResizeCommand # NoCommand
        THEN scheduleRender(
                 [setHeight(w1, g.resizingRow, newH)
                      EXCEPT !.grid.currentResizeCommand = updateNewSize(@, newH)])
        ELSE w1

onMouseDrag(w, evt) ==
    LET g == w.grid
        newW == Max(MIN_COL_WIDTH, g.originalSize + (evt.clientX - g.dragStartX))
        newH == Max(MIN_ROW_HEIGHT, g.originalSize + (evt.clientY - g.dragStartY))
        w1 == IF g.resizingCol # Null /\ g.isResizing /\ g.currentResizeCommand # NoCommand
              THEN scheduleRender(
                       [setWidth(w, g.resizingCol, newW)
                            EXCEPT !.grid.currentResizeCommand = updateNewSize(@, newW)])
              ELSE w
    IN  IF g.resizingRow # Null /\ g.isResizing /\ w1.grid.currentResizeCommand # NoCommand
        THEN scheduleRender(
                 [setHeight(w1, g.resizingRow, newH)
                      EXCEPT !.grid.currentResizeCommand = updateNewSize(@, newH)])
        ELSE w1

onPointerDrag(w, evt) == onMouseDrag(w, evt)

onMouseUp(w) ==
    LET g0 == w.grid
        w1 == IF g0.isResizing /\ g0.currentResizeCommand # NoCommand
              THEN [CommandManager_execute(w, g0.currentResizeCommand)
                        EXCEPT !.grid.currentResizeCommand = NoCommand,
                               !.grid.isResizing = FALSE]
              ELSE w
        w2 == [w1 EXCEPT !.grid.resizingCol = Null, !.grid.resizingRow = Null]
        g == w2.grid
    IN  IF g.isColHeaderDrag
        THEN LET w3 == IF ~g.colHeaderDragHasDragged /\ g.dragStartColHeader # Null
                       THEN scheduleRender(
                                [w2 EXCEPT !.selMgr =
                                     addSelectedColumn(
                                         clearSelectedColumns(
                                             selectColumn(w2.selMgr, g.dragStartColHeader)),
                                         g.dragStartColHeader)])
                       ELSE IF isDragging(w2.selMgr)
                            THEN scheduleRender([w2 EXCEPT !.selMgr = endDrag(w2.selMgr)])
                            ELSE w2
             IN  [w3 EXCEPT !.grid.isColHeaderDrag = FALSE,
                            !.grid.isMouseDown = FALSE,
                            !.grid.dragStartColHeader = Null,
                            !.grid.dragStartMouse = NullMouse,
                            !.grid.colHeaderDragHasDragged = FALSE]
        ELSE IF g.isRowHeaderDrag
        THEN LET w3 == IF ~g.rowHeaderDragHasDragged /\ g.dragStartRowHeader # Null
                       THEN scheduleRender(
                                [w2 EXCEPT !.selMgr =
                                     addSelectedRow(
                                         clearSelectedRows(
                                             selectRow(w2.selMgr, g.dragStartRowHeader)),
                                         g.dragStartRowHeader)])
                       ELSE IF isDragging(w2.selMgr)
                            THEN scheduleRender([w2 EXCEPT !.selMgr = endDrag(w2.selMgr)])
                            ELSE w2
             IN  [w3 EXCEPT !.grid.isRowHeaderDrag = FALSE,
                            !.grid.isMouseDown = FALSE,
                            !.grid.dragStartRowHeader = Null,
                            !.grid.dragStartMouse = NullMouse,
                            !.grid.rowHeaderDragHasDragged = FALSE]
        ELSE LET w3 == [w2 EXCEPT !.grid.isMouseDown = FALSE,
                                  !.grid.dragStartCell = NullPoint,
                                  !.grid.dragStartMouse = NullMouse]
             IN  IF isDragging(w3.selMgr)
                 THEN scheduleRender([w3 EXCEPT !.selMgr = endDrag(w3.selMgr)])
                 ELSE w3

onPointerUp_KeepsResizingCol(w) ==
    [onMouseUp(w) EXCEPT !.grid.resizingCol = w.grid.resizingCol]

onPointerUp_SkipsUnchanged(w) ==
    LET c == w.grid.currentResizeCommand
    IN  IF w.grid.isResizing /\ c # NoCommand /\ c.oldSize = c.newSize
        THEN onMouseUp([w EXCEPT !.grid.currentResizeCommand = NoCommand,
                                 !.grid.isResizing = FALSE])
        ELSE onMouseUp(w)

onPointerUp(w) == onMouseUp(w)

(***************************************************************************)
(* Grid: the cells of the current selection and the formatting commands.   *)
(* A Cell is named by the coordinate it is stored at.                      *)
(***************************************************************************)
RECURSIVE Concat(_)
Concat(seqs) == IF seqs = <<>> THEN <<>> ELSE Head(seqs) \o Concat(Tail(seqs))

ExistingIn(w, coords) ==
    LET Exists(p) == hasCell(w, p[1], p[2])
    IN  SelectSeq(coords, Exists)

ColumnCoords(col) == [i \in 1 .. ROWS |-> <<i - 1, col>>]
RowCoords(row) == [i \in 1 .. COLS |-> <<row, i - 1>>]
RowSpanCoords(row, startCol, endCol) ==
    [i \in 1 .. (endCol - startCol + 1) |-> <<row, startCol + i - 1>>]

getSelectedCells(w) ==
    LET s == w.selMgr
        rect == getDragRect(s)
    IN  IF Len(getSelectedColumns(s)) > 0
        THEN ExistingIn(w, Concat([i \in 1 .. Len(s.selectedColumns) |->
                                      ColumnCoords(s.selectedColumns[i])]))
        ELSE IF Len(getSelectedRows(s)) > 0
        THEN ExistingIn(w, Concat([i \in 1 .. Len(s.selectedRows) |->
                                      RowCoords(s.selectedRows[i])]))
        ELSE IF s.selectedRow # Null
        THEN ExistingIn(w, RowCoords(s.selectedRow))
        ELSE IF s.selectedCol # Null
        THEN ExistingIn(w, ColumnCoords(s.selectedCol))
        ELSE IF s.selectedCell # NullPoint
        THEN ExistingIn(w, <<(<<s.selectedCell.row, s.selectedCell.col>>)>>)
        ELSE IF rect # NullRect
        THEN ExistingIn(w, Concat([i \in 1 .. (rect.endRow - rect.startRow + 1) |->
                                      RowSpanCoords(rect.startRow + i - 1,
                                                    rect.startCol, rect.endCol)]))
        ELSE <<>>

applyFontSizeToSelection(w, newSize) ==
    LET selectedCells == getSelectedCells(w)
        commands == [i \in 1 .. Len(selectedCells) |->
                        FontSizeCommand(w, selectedCells[i][1], selectedCells[i][2], newSize)]
    IN  IF Len(selectedCells) = 0 THEN w
        ELSE scheduleRender(CommandManager_execute(w, CompositeCommand(commands)))

applyBoldToSelection(w, isBold) ==
    LET selectedCells == getSelectedCells(w)
        commands == [i \in 1 .. Len(selectedCells) |->
                        BoldCommand(w, selectedCells[i][1], selectedCells[i][2], isBold)]
    IN  IF Len(selectedCells) = 0 THEN w
        ELSE scheduleRender(CommandManager_execute(w, CompositeCommand(commands)))

applyItalicToSelection(w, isItalic) ==
    LET selectedCells == getSelectedCells(w)
        commands == [i \in 1 .. Len(selectedCells) |->
                        ItalicCommand(w, selectedCells[i][1], selectedCells[i][2], isItalic)]
    IN  IF Len(selectedCells) = 0 THEN w
        ELSE scheduleRender(CommandManager_execute(w, CompositeCommand(commands)))

onFontSizeChange(w, newSize) == applyFontSizeToSelection(w, newSize)
onBoldToggle(w, isCurrentlyBold) == applyBoldToSelection(w, ~isCurrentlyBold)
onItalicToggle(w, isCurrentlyItalic) == applyItalicToSelection(w, ~isCurrentlyItalic)

(***************************************************************************)
(* Grid.onKeyDown.  A key event is a record [key, ctrlKey, shiftKey,       *)
(* active, confirmed]: active is the state of the toolbar button a toggle  *)
(* reads, confirmed the answer to the confirmation dialog of a deletion.   *)
(***************************************************************************)
beginBatchUpdate(w) == [w EXCEPT !.grid.suppressRender = TRUE]

endBatchUpdate_NoRender(w) == [w EXCEPT !.grid.suppressRender = FALSE]

endBatchUpdate(w) == scheduleRender([w EXCEPT !.grid.suppressRender = FALSE])

CopyOf(cell) == [NewCell EXCEPT !.value = cell.value]

deleteRow(w, at) ==
    [w EXCEPT !.rowHeights =
        [r \in RowIdx |-> IF r < at THEN w.rowHeights[r]
                          ELSE IF r < ROWS - 1 THEN w.rowHeights[r + 1]
                          ELSE DEFAULT_ROW_HEIGHT]]

deleteColumn(w, at) ==
    [w EXCEPT !.colWidths =
        [c \in ColIdx |-> IF c < at THEN w.colWidths[c]
                          ELSE IF c < COLS - 1 THEN w.colWidths[c + 1]
                          ELSE DEFAULT_COL_WIDTH]]

insertRow(w, at) ==
    [w EXCEPT !.rowHeights =
        [r \in RowIdx |-> IF r < at THEN w.rowHeights[r]
                          ELSE IF r = at THEN DEFAULT_ROW_HEIGHT
                          ELSE w.rowHeights[r - 1]]]

insertColumn(w, at) ==
    [w EXCEPT !.colWidths =
        [c \in ColIdx |-> IF c < at THEN w.colWidths[c]
                          ELSE IF c = at THEN DEFAULT_COL_WIDTH
                          ELSE w.colWidths[c - 1]]]

(***************************************************************************)
(* The four shifts, as the loops the source runs.  copyRowMap is           *)
(* cells.set(target, newRowMap) with newRowMap built from the row Map of   *)
(* source; dropRowMap is cells.delete(row); moveCell is the body of the    *)
(* column loops: set the target to a new Cell with the value, delete the   *)
(* source.  The column loops of the source run row Map by row Map, in      *)
(* sorted column order inside each; the rows do not share entries, so      *)
(* one loop over all the entries in that column order does the same.       *)
(***************************************************************************)
copyRowMap(w, source, target) ==
    LET rest == {p \in DOMAIN w.cells : p[1] # target}
        copied == {<<target, p[2]>> : p \in {q \in DOMAIN w.cells : q[1] = source}}
    IN  [w EXCEPT !.cells =
            [p \in rest \cup copied |->
                IF p[1] = target THEN CopyOf(w.cells[<<source, p[2]>>]) ELSE w.cells[p]],
                  !.grid.rowMaps = @ \cup {target}]

dropRowMap(w, row) ==
    [w EXCEPT !.cells = [p \in {q \in DOMAIN w.cells : q[1] # row} |-> w.cells[p]],
              !.grid.rowMaps = @ \ {row}]

moveCell(w, from, to) ==
    [w EXCEPT !.cells =
        [p \in (DOMAIN w.cells \cup {to}) \ {from} |->
            IF p = to THEN CopyOf(w.cells[from]) ELSE w.cells[p]]]

shiftCellsDown(w, insertAt) ==
    LET RECURSIVE Loop(_, _)
        Loop(v, row) ==
            IF row < insertAt THEN v
            ELSE Loop(IF row \in v.grid.rowMaps THEN copyRowMap(v, row, row + 1) ELSE v,
                      row - 1)
        v1 == Loop(w, ROWS - 2)
    IN  [v1 EXCEPT !.cells = [p \in {q \in DOMAIN v1.cells : q[1] # insertAt} |-> v1.cells[p]],
                   !.grid.rowMaps = @ \cup {insertAt}]

shiftCellsRight_Ascending(w, insertAt) ==
    LET RECURSIVE Loop(_, _)
        Loop(v, cols) ==
            IF cols = {} THEN v
            ELSE LET p == CHOOSE q \in cols : \A o \in cols : q[2] <= o[2]
                 IN  Loop(moveCell(v, p, <<p[1], p[2] + 1>>), cols \ {p})
    IN  Loop(w, {p \in DOMAIN w.cells : p[2] >= insertAt})

shiftCellsRight(w, insertAt) ==
    LET RECURSIVE Loop(_, _)
        Loop(v, cols) ==
            IF cols = {} THEN v
            ELSE LET p == CHOOSE q \in cols : \A o \in cols : o[2] <= q[2]
                 IN  Loop(moveCell(v, p, <<p[1], p[2] + 1>>), cols \ {p})
    IN  Loop(w, {p \in DOMAIN w.cells : p[2] >= insertAt})

shiftCellsUp_KeepsTarget(w, deleteAt) ==
    LET RECURSIVE Loop(_, _)
        Loop(v, row) ==
            IF row >= ROWS - 1 THEN v
            ELSE Loop(IF (row + 1) \in v.grid.rowMaps THEN copyRowMap(v, row + 1, row)
                      ELSE v,
                      row + 1)
    IN  dropRowMap(Loop(w, deleteAt), ROWS - 1)

shiftCellsUp(w, deleteAt) ==
    LET RECURSIVE Loop(_, _)
        Loop(v, row) ==
            IF row >= ROWS - 1 THEN v
            ELSE Loop(IF (row + 1) \in v.grid.rowMaps THEN copyRowMap(v, row + 1, row)
                      ELSE dropRowMap(v, row),
                      row + 1)
    IN  dropRowMap(Loop(w, deleteAt), ROWS - 1)

shiftCellsLeft(w, deleteAt) ==
    LET RECURSIVE Loop(_, _)
        Loop(v, cols) ==
            IF cols = {} THEN v
            ELSE LET p == CHOOSE q \in cols : \A o \in cols : q[2] <= o[2]
                 IN  Loop(moveCell(v, p, <<p[1], p[2] - 1>>), cols \ {p})
        w1 == [w EXCEPT !.cells =
                  [p \in {q \in DOMAIN w.cells : q[2] # deleteAt} |-> w.cells[p]]]
    IN  Loop(w1, {p \in DOMAIN w1.cells : p[2] > deleteAt})

onInsertRow_ClearsRedo(w) ==
    LET selectedRow == w.selMgr.selectedRow
        selectedCell == w.selMgr.selectedCell
        insertAt == IF selectedRow # Null THEN selectedRow
                    ELSE IF selectedCell # NullPoint THEN selectedCell.row
                    ELSE 0
    IN  [scheduleRender(shiftCellsDown(insertRow(w, insertAt), insertAt))
             EXCEPT !.redoStack = <<>>]

onInsertRow(w) ==
    LET selectedRow == w.selMgr.selectedRow
        selectedCell == w.selMgr.selectedCell
        insertAt == IF selectedRow # Null THEN selectedRow
                    ELSE IF selectedCell # NullPoint THEN selectedCell.row
                    ELSE 0
    IN  scheduleRender(shiftCellsDown(insertRow(w, insertAt), insertAt))

onInsertColumn(w) ==
    LET selectedCol == w.selMgr.selectedCol
        selectedCell == w.selMgr.selectedCell
        insertAt == IF selectedCol # Null THEN selectedCol
                    ELSE IF selectedCell # NullPoint THEN selectedCell.col
                    ELSE 0
    IN  scheduleRender(endBatchUpdate(shiftCellsRight(
            beginBatchUpdate(insertColumn(w, insertAt)), insertAt)))

onDeleteRow_Unconfirmed(w, confirmed) ==
    LET selectedRow == w.selMgr.selectedRow
        w1 == shiftCellsUp(deleteRow(w, selectedRow), selectedRow)
    IN  IF selectedRow = Null THEN w
        ELSE IF selectedRow >= 0 /\ selectedRow < ROWS
        THEN scheduleRender([w1 EXCEPT !.selMgr = clearSelection(w1.selMgr)])
        ELSE w

onDeleteRow(w, confirmed) ==
    LET selectedRow == w.selMgr.selectedRow
        w1 == shiftCellsUp(deleteRow(w, selectedRow), selectedRow)
    IN  IF selectedRow = Null \/ ~confirmed THEN w
        ELSE IF selectedRow >= 0 /\ selectedRow < ROWS
        THEN scheduleRender([w1 EXCEPT !.selMgr = clearSelection(w1.selMgr)])
        ELSE w

onDeleteColumn(w, confirmed) ==
    LET deleteAt == w.selMgr.selectedCol
        w1 == endBatchUpdate(shiftCellsLeft(beginBatchUpdate(deleteColumn(w, deleteAt)),
                                            deleteAt))
    IN  IF deleteAt = Null \/ ~confirmed THEN w
        ELSE IF deleteAt >= 0 /\ deleteAt < COLS
        THEN scheduleRender([w1 EXCEPT !.selMgr = clearSelection(w1.selMgr)])
        ELSE w

ArrowKeys == {"ArrowRight", "ArrowLeft", "ArrowDown", "ArrowUp"}

onArrowKey_Unclamped(w, e) ==
    LET s == w.selMgr
        selected == s.selectedCell
        anchor == IF isDragging(s) /\ s.dragStart # NullPoint THEN s.dragStart ELSE selected
        focus0 == IF isDragging(s) /\ s.dragEnd # NullPoint THEN s.dragEnd ELSE anchor
        focusCol == CASE e.key = "ArrowRight" -> focus0.col + 1
                      [] e.key = "ArrowLeft" /\ focus0.col > 0 -> focus0.col - 1
                      [] OTHER -> focus0.col
        focusRow == CASE e.key = "ArrowDown" /\ focus0.row < ROWS - 1 -> focus0.row + 1
                      [] e.key = "ArrowUp" /\ focus0.row > 0 -> focus0.row - 1
                      [] OTHER -> focus0.row
    IN  IF anchor = NullPoint
        THEN w
        ELSE IF e.shiftKey
        THEN LET s1 == IF ~isDragging(s) THEN startDrag(s, anchor.row, anchor.col) ELSE s
             IN  scheduleRender([w EXCEPT !.selMgr = updateDrag(s1, focusRow, focusCol)])
        ELSE scheduleRender(
                 [w EXCEPT !.selMgr = selectCell(clearSelection(s), focusRow, focusCol)])

onArrowKey(w, e) ==
    LET s == w.selMgr
        selected == s.selectedCell
        anchor == IF isDragging(s) /\ s.dragStart # NullPoint THEN s.dragStart ELSE selected
        focus0 == IF isDragging(s) /\ s.dragEnd # NullPoint THEN s.dragEnd ELSE anchor
        focusCol == CASE e.key = "ArrowRight" /\ focus0.col < COLS - 1 -> focus0.col + 1
                      [] e.key = "ArrowLeft" /\ focus0.col > 0 -> focus0.col - 1
                      [] OTHER -> focus0.col
        focusRow == CASE e.key = "ArrowDown" /\ focus0.row < ROWS - 1 -> focus0.row + 1
                      [] e.key = "ArrowUp" /\ focus0.row > 0 -> focus0.row - 1
                      [] OTHER -> focus0.row
    IN  IF anchor = NullPoint
        THEN w
        ELSE IF e.shiftKey
        THEN LET s1 == IF ~isDragging(s) THEN startDrag(s, anchor.row, anchor.col) ELSE s
             IN  scheduleRender([w EXCEPT !.selMgr = updateDrag(s1, focusRow, focusCol)])
        ELSE scheduleRender(
                 [w EXCEPT !.selMgr = selectCell(clearSelection(s), focusRow, focusCol)])

onClearKey(w, e) ==
    LET sel == w.selMgr.selectedCell
        wc == getCell(w, sel.row, sel.col)
        command == EditCellCommand(sel.row, sel.col, wc.cells[<<sel.row, sel.col>>].value, "")
        w1 == IF sel # NullPoint THEN CommandManager_execute(wc, command) ELSE w
        w2 == IF w1.selMgr.selectedRow # Null THEN onDeleteRow(w1, e.confirmed) ELSE w1
        w3 == IF w2.selMgr.selectedCol # Null THEN onDeleteColumn(w2, e.confirmed) ELSE w2
    IN  scheduleRender(w3)

\* Ctrl+C: the values of the bounding box of the selected cells, row by row.
onCopyKey(w) ==
    LET selectedCells == getSelectedCells(w)
        rows == {selectedCells[i][1] : i \in 1 .. Len(selectedCells)}
        cols == {selectedCells[i][2] : i \in 1 .. Len(selectedCells)}
        minRow == CHOOSE r \in rows : \A q \in rows : r <= q
        maxRow == CHOOSE r \in rows : \A q \in rows : r >= q
        minCol == CHOOSE c \in cols : \A q \in cols : c <= q
        maxCol == CHOOSE c \in cols : \A q \in cols : c >= q
        clipboardData ==
            [i \in 1 .. (maxRow - minRow + 1) |->
                [j \in 1 .. (maxCol - minCol + 1) |->
                    getCellValueIfExists(w, minRow + i - 1, minCol + j - 1)]]
    IN  IF Len(selectedCells) > 0 THEN [w EXCEPT !.grid.clipboard = clipboardData] ELSE w

PasteCommand(w, row, col, data) ==
    LET InGridCell(p) == p[1] \in RowIdx /\ p[2] \in ColIdx
        targets == SelectSeq(Concat([i \in 1 .. Len(data) |->
                                        [j \in 1 .. Len(data[i]) |->
                                            <<row + i - 1, col + j - 1, data[i][j]>>]]),
                             InGridCell)
    IN  Cmd("Paste", row, col, 0, 0, FALSE, FALSE, "", "",
            [k \in 1 .. Len(targets) |->
                EditCellCommand(targets[k][1], targets[k][2],
                                getCellValueIfExists(w, targets[k][1], targets[k][2]),
                                targets[k][3])])

\* Ctrl+V: one PasteCommand anchored at the selected cell.
onPasteKey(w) ==
    LET selectedCell == w.selMgr.selectedCell
    IN  IF selectedCell = NullPoint \/ w.grid.clipboard = NoClipboard THEN w
        ELSE scheduleRender(
                 CommandManager_execute(
                     w, PasteCommand(w, selectedCell.row, selectedCell.col,
                                     w.grid.clipboard)))

onKeyDown(w, e) ==
    IF e.ctrlKey /\ e.key = "c" THEN onCopyKey(w)
    ELSE IF e.ctrlKey /\ e.key = "v" THEN onPasteKey(w)
    ELSE IF w.grid.editingCell # NullPoint THEN w
    \* Enter and Escape call finishEditing(true), which returns at once here:
    \* no cell is being edited.
    ELSE IF e.key \in {"Enter", "Escape"} THEN w
    ELSE IF e.key \in ArrowKeys THEN onArrowKey(w, e)
    ELSE IF e.ctrlKey /\ e.key = "a"
    THEN scheduleRender([w EXCEPT !.selMgr = selectAll(w.selMgr)])
    ELSE IF e.ctrlKey /\ e.key = "b" THEN onBoldToggle(w, e.active)
    ELSE IF e.ctrlKey /\ e.key = "i" THEN onItalicToggle(w, e.active)
    ELSE IF e.key = "Backspace" THEN onClearKey(w, e)
    ELSE IF e.key = "Delete" THEN onClearKey(w, e)
    ELSE IF e.ctrlKey /\ e.key = "z" THEN scheduleRender(CommandManager_undo(w))
    ELSE IF e.ctrlKey /\ e.key = "y" THEN scheduleRender(CommandManager_redo(w))
    ELSE w

Key(key, ctrlKey, shiftKey, active, confirmed) ==
    [key |-> key, ctrlKey |-> ctrlKey, shiftKey |-> shiftKey, active |-> active,
     confirmed |-> confirmed]

Evt(p, button) == [clientX |-> p[1], clientY |-> p[2], button |-> button]

(***************************************************************************)
(* Input events.  A pointer-down arrives only while no button is held and  *)
(* a pointer-up only while one is; every pointer-move reaches the canvas   *)
(* listener (onPointerMove) and then the window listener (onPointerDrag).  *)
(* The animation-frame callback runs when a render has been scheduled.     *)
(* The undo history is capped at MaxHistory entries: a resize session      *)
(* starts, and a redo runs, only if the push it leads to still fits.       *)
(* Presses are of the primary button (button 0).                          *)
(***************************************************************************)
Pending == IF grid.isResizing THEN 1 ELSE 0

TracksNow == [colWidths |-> colWidths, rowHeights |-> rowHeights]

PointerDownAt(points) ==
    /\ ~grid.buttonDown
    /\ \E p \in points :
         LET w1 == onPointerDown(World, Evt(p, 0))
         IN  /\ w1.grid.isResizing => Len(undoStack) < MaxHistory
             /\ Commit([w1 EXCEPT !.grid.buttonDown = TRUE, !.tracksAtDown = TracksNow,
                                  !.event = "pointerdown"])

PointerMoveAt(points) ==
    \E p \in points :
        Commit([onPointerDrag(onPointerMove(World, Evt(p, 0)), Evt(p, 0))
                    EXCEPT !.event = "pointermove"])

PointerUp ==
    /\ grid.buttonDown
    /\ Commit([onPointerUp(World) EXCEPT !.grid.buttonDown = FALSE, !.event = "pointerup"])

RedoFits == redoStack # <<>> => Len(undoStack) + Pending < MaxHistory

KeyDown(e) == Commit([onKeyDown(World, e) EXCEPT !.event = "keydown"])

KeyUndo == KeyDown(Key("z", TRUE, FALSE, FALSE, FALSE))

KeyRedo == RedoFits /\ KeyDown(Key("y", TRUE, FALSE, FALSE, FALSE))

Frame ==
    /\ grid.pendingFrames > 0
    /\ Commit([renderFrame(World) EXCEPT !.event = "frame"])

(***************************************************************************)
(* SpecResize: pointer sessions on the headers, with undo and redo from    *)
(* the keyboard.  With the default sizes the gutter of column 0 is at      *)
(* clientX 135..139 and the gutter of row 0 at clientY 65..69.  A press at *)
(* one of these points while the track has another size is outside every   *)
(* gutter and starts a header selection session instead.  A move to        *)
(* clientX 160 widens column 0 to 123, one to clientX 20 asks for a width  *)
(* of -17, and a move to clientY 20 asks for a height of -17.              *)
(***************************************************************************)
ResizeDownPoints == {<<137, 20>>, <<20, 67>>}
ResizeMovePoints == {<<137, 20>>, <<160, 20>>, <<20, 67>>}

NextResize ==
    \/ PointerDownAt(ResizeDownPoints)
    \/ PointerMoveAt(ResizeMovePoints)
    \/ PointerUp
    \/ KeyUndo
    \/ KeyRedo

SpecResize == Init /\ [][NextResize]_vars

(***************************************************************************)
(* Properties of the resize session.                                       *)
(***************************************************************************)
IsResize(c) == c.kind \in {"ResizeColumn", "ResizeRow"}

TrackSize(tracks, c) ==
    IF c.kind = "ResizeColumn" THEN tracks.colWidths[c.col] ELSE tracks.rowHeights[c.row]

Executions(log) == {i \in 1 .. Len(log) : log[i].method = "CommandManager.execute"}

\* C5: in a row or column resize session (pointer-down in a resize gutter,
\* pointer-moves, pointer-up) no pointer-move pushes a command; the pointer-up
\* pushes exactly one command, the session's, on the undo stack; and an undo
\* right after that pointer-up sets the resized track back to the size it had
\* at the pointer-down, whatever keyboard undo/redo happened during the session.
C5_ResizeSessionPushesOnce ==
    [][ /\ event' = "pointermove" =>
             /\ undoStack' = undoStack
             /\ redoStack' = redoStack
             /\ calls' = <<>>
        /\ (event' = "pointerup" /\ grid.isResizing) =>
             /\ IsResize(grid.currentResizeCommand)
             /\ Len(undoStack') = Len(undoStack) + 1
             /\ Pop(undoStack') = undoStack
             /\ Top(undoStack') = grid.currentResizeCommand
             /\ Top(undoStack').oldSize = TrackSize(tracksAtDown, Top(undoStack'))
             /\ Executions(calls') = {1}
             /\ ~grid'.isResizing
        /\ ( /\ event = "pointerup"
             /\ Invoked(calls, "CommandManager.execute")
             /\ Invoked(calls', "CommandManager.undo") ) =>
             /\ Len(calls') = 2
             /\ calls'[2] = Call("undo", calls[1].command)
             /\ TrackSize(TracksNow', calls[1].command)
                    = TrackSize(tracksAtDown, calls[1].command)
      ]_vars

\* An undo right after the pointer-up of a column session during which a
\* keyboard redo re-applied an earlier resize of the same column: the command
\* below the session's command leaves a size other than the one restored.
C5_Witness ==
    /\ event = "keydown"
    /\ Len(calls) = 2
    /\ calls[2].method = "undo"
    /\ calls[2].command.kind = "ResizeColumn"
    /\ calls[2].command.newSize # calls[2].command.oldSize
    /\ redoStack = <<calls[2].command>>
    /\ undoStack # <<>>
    /\ Top(undoStack).kind = "ResizeColumn"
    /\ Top(undoStack).col = calls[2].command.col
    /\ Top(undoStack).newSize # calls[2].command.oldSize
    /\ colWidths[calls[2].command.col] = tracksAtDown.colWidths[calls[2].command.col]

\* C6: size floor: in every state reached through pointer resize sessions,
\* undo and redo, every column width is at least the minimum column width (40)
\* and every row height at least the minimum row height (20); none is negative.
C6_SizeFloor ==
    /\ \A c \in ColIdx : colWidths[c] >= MIN_COL_WIDTH /\ colWidths[c] >= 0
    /\ \A r \in RowIdx : rowHeights[r] >= MIN_ROW_HEIGHT /\ rowHeights[r] >= 0

C6_Witness ==
    /\ \E c \in ColIdx : colWidths[c] = MIN_COL_WIDTH
    /\ \E r \in RowIdx : rowHeights[r] = MIN_ROW_HEIGHT
    /\ \E i \in 1 .. Len(undoStack) :
          /\ undoStack[i].kind = "ResizeColumn"
          /\ undoStack[i].newSize = MIN_COL_WIDTH
          /\ undoStack[i].oldSize > MIN_COL_WIDTH

(***************************************************************************)
(* SpecGridSel: selection through the grid's handlers: presses, moves and  *)
(* releases on the corner, the column headers, the row headers and the     *)
(* data area, arrow keys with and without Shift, Ctrl+A, and the           *)
(* animation frame.  With the default sizes clientX 60 and 160 are inside  *)
(* columns 0 and 1 and clientY 50 and 80 inside rows 0 and 1, all outside  *)
(* the resize gutters.                                                     *)
(***************************************************************************)
SelectPoints ==
    {<<20, 20>>, <<60, 20>>, <<160, 20>>, <<20, 50>>, <<20, 80>>, <<60, 50>>, <<160, 80>>}

KeyArrow ==
    \E k \in ArrowKeys, shift \in BOOLEAN : KeyDown(Key(k, FALSE, shift, FALSE, FALSE))

KeySelectAll == KeyDown(Key("a", TRUE, FALSE, FALSE, FALSE))

NextGridSel ==
    \/ PointerDownAt(SelectPoints)
    \/ PointerMoveAt(SelectPoints)
    \/ PointerUp
    \/ KeyArrow
    \/ KeySelectAll
    \/ Frame

SpecGridSel == Init /\ [][NextGridSel]_vars

\* C8: selection mutual exclusion: in every state reached through header
\* clicks, header drags, data-area drags, the corner, Ctrl+A and keyboard
\* navigation at most one of {single cell, row set, column set, dragging} is
\* active (none of them is "no selection"); in particular a non-empty row set
\* or column set never coexists with an active drag or a selected cell.
C8_MutualExclusion ==
    LET singleCell == selMgr.selectedCell # NullPoint
        rowSet == selMgr.selectedRow # Null \/ getSelectedRows(selMgr) # <<>>
        columnSet == selMgr.selectedCol # Null \/ getSelectedColumns(selMgr) # <<>>
        dragging == isDragging(selMgr)
    IN  /\ ~(singleCell /\ rowSet) /\ ~(singleCell /\ columnSet) /\ ~(singleCell /\ dragging)
        /\ ~(rowSet /\ columnSet)
        /\ ~(rowSet /\ dragging)
        /\ ~(columnSet /\ dragging)

(***************************************************************************)
(* SpecEdit: commands issued through the grid's handlers and undone from   *)
(* the keyboard, on the imported store of InitCmd.  A press at (60, 50)    *)
(* selects the written cell (0, 0), one at (60, 80) the cell (1, 0) that   *)
(* was never written; (138, 20) is in the gutter of column 0 while it is   *)
(* 100 or 103 wide, and a move from there to (141, 20) widens the column   *)
(* by 3.  The toolbar buttons are not in their active state and the        *)
(* confirmation dialog of a deletion is answered with "cancel".  There is  *)
(* no redo: the undo stack is empty exactly when every executed command    *)
(* has been undone.                                                        *)
(***************************************************************************)
EditDownPoints == {<<60, 50>>, <<60, 80>>, <<138, 20>>}
EditMovePoints == {<<141, 20>>}

ExecuteFits == Len(undoStack) + Pending < MaxHistory

KeyClear ==
    /\ ExecuteFits
    /\ \E k \in {"Backspace", "Delete"} : KeyDown(Key(k, FALSE, FALSE, FALSE, FALSE))

KeyBold ==
    /\ ExecuteFits
    /\ KeyDown(Key("b", TRUE, FALSE, FALSE, FALSE))

KeyItalic ==
    /\ ExecuteFits
    /\ KeyDown(Key("i", TRUE, FALSE, FALSE, FALSE))

ChangeFontSize ==
    /\ ExecuteFits
    /\ \E newSize \in {18} :
          Commit([onFontSizeChange(World, newSize) EXCEPT !.event = "change"])

NextEdit ==
    \/ PointerDownAt(EditDownPoints)
    \/ PointerMoveAt(EditMovePoints)
    \/ PointerUp
    \/ KeyClear
    \/ KeyBold
    \/ KeyItalic
    \/ ChangeFontSize
    \/ KeyUndo

SpecEdit == InitCmd /\ [][NextEdit]_vars

\* C1: round-trip law: once every command that was executed has been undone
\* (n execute() calls, n undo() calls, no resize session open), the cell store
\* (occupied coordinates and every cell attribute) and both size tracks are
\* identical to their state before the first execute().
C1_RoundTrip ==
    (undoStack = <<>> /\ ~grid.isResizing) =>
        /\ cells = ImportedStore
        /\ TracksNow = DefaultTracks

(***************************************************************************)
(* Properties of the render scheduler.                                     *)
(***************************************************************************)
Paints(log) == {i \in 1 .. Len(log) : log[i].method = "render"}

\* C13: render coalescing: outside batch mode at most one frame callback is
\* pending at any time, however many handlers called scheduleRender since the
\* last frame; a handler never paints, it leaves exactly one callback pending
\* when it schedules a render (Ctrl+A always does); the frame callback paints
\* exactly once and leaves none pending.
C13_RenderCoalescing ==
    [][ /\ grid'.pendingFrames \in {0, 1}
        /\ grid'.renderScheduled <=> grid'.pendingFrames = 1
        /\ event' # "frame" =>
              /\ Paints(calls') = {}
              /\ grid.pendingFrames = 1 => grid'.pendingFrames = 1
        /\ KeySelectAll => grid'.pendingFrames = 1
        /\ event' = "frame" =>
              /\ grid.pendingFrames = 1
              /\ Cardinality(Paints(calls')) = 1
              /\ grid'.pendingFrames = 0
      ]_vars

C13_Witness ==
    /\ event = "frame"
    /\ Cardinality(Paints(calls)) = 1
    /\ grid.pendingFrames = 0
    /\ selMgr.dragging
    /\ selMgr.dragEnd # selMgr.dragStart
    /\ grid.isTopLeftHovered

(***************************************************************************)
(* Programmatic writes and the importer.  A text is blank when trim()      *)
(* leaves nothing of it; the texts used here are "", " ", "x" and "y".     *)
(* importFromJSON gets a rectangular array of texts, already converted     *)
(* with String(value ?? "").                                               *)
(***************************************************************************)
IsBlank(value) == value \in {"", " "}

setCellValue_NoBlankCheck(w, row, col, value) ==
    LET w1 == getCell(w, row, col)
        w2 == [w1 EXCEPT !.cells[<<row, col>>].value = value]
    IN  IF ~w2.grid.suppressRender THEN scheduleRender(w2) ELSE w2

setCellValue(w, row, col, value) ==
    IF IsBlank(value)
    THEN w
    ELSE LET w1 == getCell(w, row, col)
             w2 == [w1 EXCEPT !.cells[<<row, col>>].value = value]
         IN  IF ~w2.grid.suppressRender THEN scheduleRender(w2) ELSE w2

importFromJSON(w, data) ==
    LET RECURSIVE WriteFrom(_, _, _)
        WriteFrom(v, r, c) ==
            IF r > Len(data) THEN v
            ELSE IF c > Len(data[r]) THEN WriteFrom(v, r + 1, 1)
            ELSE WriteFrom(setCellValue(v, r - 1, c - 1, data[r][c]), r, c + 1)
    IN  endBatchUpdate(WriteFrom(beginBatchUpdate(w), 1, 1))

(***************************************************************************)
(* SpecBatch: the batch helpers called one by one or through the importer, *)
(* with scroll events (which schedule a render) and animation frames in    *)
(* between.                                                                *)
(***************************************************************************)
CallBeginBatchUpdate == Commit([beginBatchUpdate(World) EXCEPT !.event = "beginBatch"])

CallEndBatchUpdate == Commit([endBatchUpdate(World) EXCEPT !.event = "endBatch"])

CallSetCellValue ==
    \E r \in RowIdx, c \in ColIdx, value \in {"", " ", "x"} :
        Commit([setCellValue(World, r, c, value) EXCEPT !.event = "setCellValue"])

CallImportFromJSON ==
    \E nr \in 1 .. 2, nc \in 1 .. 2 :
        \E data \in [1 .. nr -> [1 .. nc -> {"", "x"}]] :
            Commit([importFromJSON(World, data) EXCEPT !.event = "import"])

Scroll == Commit([scheduleRender(World) EXCEPT !.event = "scroll"])

NextBatch ==
    \/ CallBeginBatchUpdate
    \/ CallSetCellValue
    \/ CallEndBatchUpdate
    \/ CallImportFromJSON
    \/ Scroll
    \/ Frame

SpecBatch == Init /\ [][NextBatch]_vars

\* C14: batch mode: a setCellValue call between beginBatchUpdate() and
\* endBatchUpdate() schedules no render and paints nothing; after
\* endBatchUpdate(), and after a whole import, exactly one frame callback is
\* pending, whether or not one was pending before the batch; further
\* scheduleRender calls before the frame leave it at one, and the frame
\* paints exactly once.
C14_BatchPaintsOnce ==
    [][ /\ (event' = "setCellValue" /\ grid.suppressRender) =>
              /\ grid'.pendingFrames = grid.pendingFrames
              /\ grid'.renderScheduled = grid.renderScheduled
              /\ Paints(calls') = {}
        /\ event' \in {"endBatch", "import"} =>
              /\ ~grid'.suppressRender
              /\ grid'.pendingFrames = 1
              /\ Paints(calls') = {}
        /\ (event' = "scroll" /\ grid.pendingFrames = 1) => grid'.pendingFrames = 1
        /\ event' = "frame" =>
              /\ Cardinality(Paints(calls')) = 1
              /\ grid'.pendingFrames = 0
      ]_vars

C14_Witness ==
    /\ event = "import"
    /\ Cardinality(DOMAIN cells) = ROWS * COLS
    /\ grid.pendingFrames = 1
    /\ ~grid.suppressRender

(***************************************************************************)
(* SpecStore: the sparse store driven through its accessors, from the      *)
(* empty store.  Writes and edit-opens go to three coordinates, reads to   *)
(* every coordinate; a read calls getCellIfExists, getCellValueIfExists    *)
(* and countCreatedCells in turn.                                          *)
(***************************************************************************)
StoreCoords == {<<0, 0>>, <<0, 1>>, <<1, 1>>}

StoreWrite ==
    \E p \in StoreCoords, value \in {"", " ", "x", "y"} :
        Commit([setCellValue(World, p[1], p[2], value) EXCEPT
                   !.event = "setCellValue",
                   !.ret = Ret("setCellValue", p[1], p[2], NullCell, value, Null),
                   !.storeLog.lastText =
                       IF IsBlank(value) THEN @ ELSE (p :> value) @@ @])

StoreOpen ==
    \E p \in StoreCoords :
        LET w1 == getCell(World, p[1], p[2])
        IN  Commit([w1 EXCEPT !.event = "getCell",
                              !.ret = Ret("getCell", p[1], p[2], w1.cells[p], "", Null),
                              !.storeLog.opened = @ \cup {p}])

StoreRead ==
    \E p \in Coord :
        Commit([World EXCEPT
                   !.event = "read",
                   !.ret = Ret("getCellIfExists", p[1], p[2],
                               getCellIfExists(World, p[1], p[2]),
                               getCellValueIfExists(World, p[1], p[2]),
                               countCreatedCells(World))])

NextStore ==
    \/ StoreWrite
    \/ StoreOpen
    \/ StoreRead

SpecStore == Init /\ [][NextStore]_vars

NeverTouched == Coord \ (DOMAIN storeLog.lastText \cup storeLog.opened)

\* C15: reads never materialize storage: a coordinate that was never written
\* and never edit-opened is not in the store; reading it with getCellIfExists
\* returns absent and with getCellValueIfExists the empty text; and a read of
\* any coordinate leaves the store and countCreatedCells() unchanged.
C15_ReadsDoNotMaterialize ==
    [][ /\ \A p \in NeverTouched' : ~hasCell(World', p[1], p[2])
        /\ event' = "read" =>
              /\ cells' = cells
              /\ countCreatedCells(World') = countCreatedCells(World)
              /\ ret'.count = countCreatedCells(World)
              /\ <<ret'.row, ret'.col>> \in NeverTouched =>
                    /\ ret'.cell = NullCell
                    /\ ret'.text = ""
      ]_vars

C15_Witness ==
    /\ event = "read"
    /\ <<ret.row, ret.col>> \in NeverTouched
    /\ ret.cell = NullCell
    /\ ret.text = ""
    /\ ret.count = 1
    /\ DOMAIN cells = {<<0, 0>>}

\* C16: sparse occupancy: as long as the store, empty at first, was only
\* written with setCellValue, countCreatedCells() equals the number k of
\* distinct coordinates written with a non-blank text, each of them reads back
\* the text written last, and every other coordinate is absent.
C16_SparseOccupancy ==
    storeLog.opened = {} =>
        /\ countCreatedCells(World) = Cardinality(DOMAIN storeLog.lastText)
        /\ \A p \in DOMAIN storeLog.lastText :
              /\ getCellValueIfExists(World, p[1], p[2]) = storeLog.lastText[p]
              /\ getCellIfExists(World, p[1], p[2]).value = storeLog.lastText[p]
        /\ \A p \in Coord \ DOMAIN storeLog.lastText :
              /\ getCellIfExists(World, p[1], p[2]) = NullCell
              /\ ~hasCell(World, p[1], p[2])

C16_Witness ==
    /\ storeLog.opened = {}
    /\ DOMAIN storeLog.lastText = {<<0, 0>>, <<1, 1>>}
    /\ storeLog.lastText[<<0, 0>>] = "y"
    /\ event = "read"
    /\ ret.count = 2
    /\ <<ret.row, ret.col>> = <<0, 1>>
    /\ ret.cell = NullCell

(***************************************************************************)
(* SpecShift: the structural edits.  Cells are typed into a few            *)
(* coordinates (so that rows with and without a row Map lie next to each   *)
(* other), the cells of the selected row or column are set bold with       *)
(* Ctrl+B (once, while the history is empty), and rows and columns are     *)
(* inserted and deleted with the toolbar buttons at the selected index.    *)
(* A column insert moves the entries of the last column to column COLS,    *)
(* outside the grid; a further insert is held back while an entry is out   *)
(* there.                                                                  *)
(***************************************************************************)
TypeValue ==
    \E p \in StoreCoords, value \in {"x", "y"} :
        Commit([setCellValue(World, p[1], p[2], value) EXCEPT !.event = "setCellValue"])

InsertAtRow ==
    IF selMgr.selectedRow # Null THEN selMgr.selectedRow
    ELSE IF selMgr.selectedCell # NullPoint THEN selMgr.selectedCell.row
    ELSE 0

InsertAtCol ==
    IF selMgr.selectedCol # Null THEN selMgr.selectedCol
    ELSE IF selMgr.selectedCell # NullPoint THEN selMgr.selectedCell.col
    ELSE 0

FormatSelection ==
    /\ undoStack = <<>>
    /\ KeyDown(Key("b", TRUE, FALSE, FALSE, FALSE))

ClickInsertRow ==
    Commit([onInsertRow(World) EXCEPT
               !.event = "insertRow",
               !.storeLog.beforeInsert =
                   [at |-> InsertAtRow, cells |-> cells, rowHeights |-> rowHeights]])

ClickInsertColumn ==
    /\ \A p \in DOMAIN cells : p[2] < COLS
    /\ Commit([onInsertColumn(World) EXCEPT !.event = "insertColumn"])

ClickDeleteRow ==
    \E confirmed \in BOOLEAN :
        Commit([onDeleteRow(World, confirmed) EXCEPT
                   !.event = IF confirmed THEN "deleteRow" ELSE "deleteRowCancelled"])

ClickDeleteColumn ==
    \E confirmed \in BOOLEAN :
        Commit([onDeleteColumn(World, confirmed) EXCEPT
                   !.event = IF confirmed THEN "deleteColumn" ELSE "deleteColumnCancelled"])

NextShift ==
    \/ TypeValue
    \/ CallSelectRow
    \/ CallSelectColumn
    \/ FormatSelection
    \/ ClickInsertRow
    \/ ClickInsertColumn
    \/ ClickDeleteRow
    \/ ClickDeleteColumn

SpecShift == Init /\ [][NextShift]_vars

(***************************************************************************)
(* Stored(cs, p) is what the store cs holds at p: <<>> when no Cell is     *)
(* stored there, the one-element sequence of its value otherwise.          *)
(***************************************************************************)
Stored(cs, p) == IF p \in DOMAIN cs THEN <<cs[p].value>> ELSE <<>>

\* C17: after insert-row(at), for every column c the rows above at are
\* unchanged, (at, c) holds no stored cell, and for every row r >= at that
\* has a row below it the value at (r+1, c) is the value that was at (r, c)
\* before the insert, absent staying absent -- whatever rows were occupied.
C17_InsertRowRelocates ==
    [][event' = "insertRow" =>
        \A c \in ColIdx :
            /\ \A r \in RowIdx : r < InsertAtRow =>
                   Stored(cells', <<r, c>>) = Stored(cells, <<r, c>>)
            /\ Stored(cells', <<InsertAtRow, c>>) = <<>>
            /\ \A r \in RowIdx : (r >= InsertAtRow /\ r + 1 \in RowIdx) =>
                   Stored(cells', <<r + 1, c>>) = Stored(cells, <<r, c>>)]_vars

(***************************************************************************)
(* ShiftTarget(p) is the coordinate the structural edit of this step       *)
(* relocates the entry at p to, or p itself for an entry the edit does not *)
(* relocate (including the entries of a deleted row or column).            *)
(***************************************************************************)
ShiftTarget(p) ==
    CASE event' = "insertRow" /\ p[1] >= InsertAtRow -> <<p[1] + 1, p[2]>>
      [] event' = "insertColumn" /\ p[2] >= InsertAtCol -> <<p[1], p[2] + 1>>
      [] event' = "deleteRow" /\ selMgr.selectedRow # Null /\ p[1] > selMgr.selectedRow ->
             <<p[1] - 1, p[2]>>
      [] event' = "deleteColumn" /\ selMgr.selectedCol # Null /\ p[2] > selMgr.selectedCol ->
             <<p[1], p[2] - 1>>
      [] OTHER -> p

\* C18: every stored cell that an insert or a delete of a row or a column
\* relocates (to a row inside the grid) is stored at its new coordinate with
\* the same value, font size, bold flag and italic flag as before.
C18_ShiftPreservesAttributes ==
    [][event' \in {"insertRow", "insertColumn", "deleteRow", "deleteColumn"} =>
        \A p \in DOMAIN cells :
            (ShiftTarget(p) # p /\ ShiftTarget(p)[1] \in RowIdx) =>
                /\ ShiftTarget(p) \in DOMAIN cells'
                /\ cells'[ShiftTarget(p)] = cells[p]]_vars

\* C20: when insert-row(at) is immediately followed by delete-row(at), and
\* the last row of the grid held no cell and had the default height before
\* the insert, the store and the row heights are afterwards what they were
\* before the insert.
C20_InsertDeleteRowInverse ==
    [][(/\ event = "insertRow"
        /\ event' = "deleteRow"
        /\ storeLog.beforeInsert.at = selMgr.selectedRow
        /\ storeLog.beforeInsert.rowHeights[ROWS - 1] = DEFAULT_ROW_HEIGHT
        /\ \A p \in DOMAIN storeLog.beforeInsert.cells : p[1] < ROWS - 1) =>
            /\ cells' = storeLog.beforeInsert.cells
            /\ rowHeights' = storeLog.beforeInsert.rowHeights]_vars

(***************************************************************************)
(* SpecColumns: the column edits alone, on typed cells.                    *)
(***************************************************************************)
NextColumns ==
    \/ TypeValue
    \/ CallSelectColumn
    \/ ClickInsertColumn
    \/ ClickDeleteColumn

SpecColumns == Init /\ [][NextColumns]_vars

\* C19: insert-column(at) leaves the columns before at as they were, leaves
\* column at with no stored cell and stores at every (r, c+1) with c >= at
\* what was stored at (r, c); delete-column(at) leaves the columns before at
\* as they were and stores at every (r, c) with c >= at what was stored at
\* (r, c+1): but for the deleted column no value is lost, overwritten or
\* stored twice.
C19_ColumnShifts ==
    [][/\ event' = "insertColumn" =>
           /\ DOMAIN cells' \subseteq RowIdx \X (0 .. COLS)
           /\ \A q \in RowIdx \X (0 .. COLS) :
                  Stored(cells', q) =
                      IF q[2] < InsertAtCol THEN Stored(cells, q)
                      ELSE IF q[2] = InsertAtCol THEN <<>>
                      ELSE Stored(cells, <<q[1], q[2] - 1>>)
       /\ (event' = "deleteColumn" /\ selMgr.selectedCol # Null) =>
           /\ DOMAIN cells' \subseteq RowIdx \X (0 .. COLS)
           /\ \A q \in RowIdx \X (0 .. COLS) :
                  Stored(cells', q) =
                      IF q[2] < selMgr.selectedCol THEN Stored(cells, q)
                      ELSE Stored(cells, <<q[1], q[2] + 1>>)]_vars

C19_Witness ==
    /\ event = "insertColumn"
    /\ <<0, 0>> \notin DOMAIN cells
    /\ Stored(cells, <<0, 1>>) = <<"x">>
    /\ Stored(cells, <<0, 2>>) = <<"y">>

(***************************************************************************)
(* SpecDelete: the deletions alone.  Cells are typed, the first row and    *)
(* the first column are resized, a whole row or column is selected, the    *)
(* cells of the selection are set bold (and the change undone), and the    *)
(* Delete Row and Delete Column buttons are clicked, the confirmation      *)
(* dialog answering either way.                                            *)
(***************************************************************************)
ResizeFirstTrack ==
    \/ Commit(setHeight(World, 0, DEFAULT_ROW_HEIGHT + MIN_ROW_HEIGHT))
    \/ Commit(setWidth(World, 0, DEFAULT_COL_WIDTH + MIN_COL_WIDTH))

NextDelete ==
    \/ TypeValue
    \/ ResizeFirstTrack
    \/ CallSelectRow
    \/ CallSelectColumn
    \/ FormatSelection
    \/ KeyUndo
    \/ ClickDeleteRow
    \/ ClickDeleteColumn

SpecDelete == Init /\ [][NextDelete]_vars

\* C21: a click on Delete Row (Delete Column) whose confirmation is declined,
\* or that finds no whole row (column) selected, changes neither size track,
\* nor the cell store, nor the selection, nor the undo or the redo stack.
C21_DeclinedDeleteIsNoOp ==
    [][(\/ event' \in {"deleteRowCancelled", "deleteColumnCancelled"}
        \/ event' = "deleteRow" /\ selMgr.selectedRow = Null
        \/ event' = "deleteColumn" /\ selMgr.selectedCol = Null) =>
            UNCHANGED <<colWidths, rowHeights, cells, selMgr, undoStack, redoStack>>]_vars

C21_Witness ==
    /\ event = "deleteRowCancelled"
    /\ selMgr.selectedRow = 0
    /\ rowHeights[0] # DEFAULT_ROW_HEIGHT
    /\ <<0, 0>> \in DOMAIN cells
    /\ <<1, 1>> \in DOMAIN cells
    /\ redoStack # <<>>

\* C22: a confirmed delete-row(at) leaves every row before at as it was and
\* stores at every (r, c) with r >= at what was stored at (r+1, c) -- nothing
\* when row r+1 held nothing there or r is the last row -- so that what row
\* at held is stored nowhere any more.
C22_DeleteRowRelocates ==
    [][(event' = "deleteRow" /\ selMgr.selectedRow # Null) =>
        /\ DOMAIN cells' \subseteq Coord
        /\ \A q \in Coord :
               Stored(cells', q) =
                   IF q[1] < selMgr.selectedRow THEN Stored(cells, q)
                   ELSE Stored(cells, <<q[1] + 1, q[2]>>)]_vars

C22_Witness ==
    /\ event = "deleteRow"
    /\ undoStack # <<>>
    /\ undoStack[1].children # <<>>
    /\ undoStack[1].children[1].row = 1
    /\ undoStack[1].children[1].col = 1
    /\ DOMAIN cells = {<<0, 1>>}
    /\ cells[<<0, 1>>].value = "y"

(***************************************************************************)
(* SpecGridDelete: the pointer and keyboard selection of SpecGridSel       *)
(* together with the Delete Row and Delete Column buttons.                 *)
(***************************************************************************)
NextGridDelete ==
    \/ NextGridSel
    \/ ClickDeleteRow
    \/ ClickDeleteColumn

SpecGridDelete == Init /\ [][NextGridDelete]_vars

\* C23: after a confirmed delete of the selected row (column) the selection
\* is empty: no selected cell, no selected row, no selected column, no row
\* set, no column set and no drag rectangle.
C23_DeleteClearsSelection ==
    [][(\/ event' = "deleteRow" /\ selMgr.selectedRow # Null
        \/ event' = "deleteColumn" /\ selMgr.selectedCol # Null) =>
            /\ selMgr'.selectedCell = NullPoint
            /\ selMgr'.selectedRow = Null
            /\ selMgr'.selectedCol = Null
            /\ getSelectedRows(selMgr') = <<>>
            /\ getSelectedColumns(selMgr') = <<>>
            /\ getDragRect(selMgr') = NullRect]_vars

(***************************************************************************)
(* SpecDragSel: pointer sessions on the header bodies and on the data      *)
(* area, with the pointer history recorded, and the arrow keys, pressed    *)
(* between the sessions (while no button is held).  Next to the points of  *)
(* SpecGridSel there are points one pixel away from a press point, for     *)
(* the moves that stay within the drag threshold.                          *)
(***************************************************************************)
DragPoints ==
    {<<60, 20>>, <<61, 20>>, <<160, 20>>, <<20, 50>>, <<20, 51>>, <<20, 80>>,
     <<60, 50>>, <<61, 50>>, <<160, 80>>}

PressAt(points) ==
    /\ ~grid.buttonDown
    /\ \E p \in points :
         LET w1 == onPointerDown(World, Evt(p, 0))
         IN  /\ w1.grid.isResizing => Len(undoStack) < MaxHistory
             /\ Commit([w1 EXCEPT !.grid.buttonDown = TRUE, !.tracksAtDown = TracksNow,
                                  !.event = "pointerdown",
                                  !.pointer = [down |-> p, at |-> p,
                                               farX |-> FALSE, farY |-> FALSE]])

MoveTo(points) ==
    \E p \in points :
        Commit([onPointerDrag(onPointerMove(World, Evt(p, 0)), Evt(p, 0))
                    EXCEPT !.event = "pointermove",
                           !.pointer =
                               IF pointer.down = <<>> THEN [pointer EXCEPT !.at = p]
                               ELSE [pointer EXCEPT
                                        !.at = p,
                                        !.farX = @ \/ Abs(p[1] - pointer.down[1]) > DRAG_THRESHOLD,
                                        !.farY = @ \/ Abs(p[2] - pointer.down[2]) > DRAG_THRESHOLD]])

Release ==
    /\ grid.buttonDown
    /\ Commit([onPointerUp(World) EXCEPT !.grid.buttonDown = FALSE, !.event = "pointerup",
                                         !.pointer.down = <<>>])

KeyArrowIdle == ~grid.buttonDown /\ KeyArrow

NextDragSel ==
    \/ PressAt(DragPoints)
    \/ MoveTo(DragPoints)
    \/ Release
    \/ KeyArrowIdle

SpecDragSel == Init /\ [][NextDragSel]_vars

(***************************************************************************)
(* RowAt(p) and ColAt(p) are the row and the column under the pointer at   *)
(* p, with the default track sizes and no scrolling (which is what         *)
(* SpecDragSel keeps): the header bar is HEADER_SIZE high and wide.        *)
(***************************************************************************)
RowAt(p) == (p[2] - HEADER_SIZE) \div DEFAULT_ROW_HEIGHT
ColAt(p) == (p[1] - HEADER_SIZE) \div DEFAULT_COL_WIDTH

InRowHeader(p) == p[1] < HEADER_SIZE /\ p[2] >= HEADER_SIZE
InColHeader(p) == p[2] < HEADER_SIZE /\ p[1] >= HEADER_SIZE
InData(p) == p[1] >= HEADER_SIZE /\ p[2] >= HEADER_SIZE

\* C24: in a row-header (column-header) pointer session that has moved
\* further than the threshold from the press, after every pointer-move to
\* a row (column) b the list of selected rows (columns) is min(a,b) ..
\* max(a,b) in ascending order, a being the pressed header, and the
\* pointer-up leaves that list as it is.
C24_HeaderDragNormalized ==
    [][/\ (event' = "pointermove" /\ pointer'.down # <<>> /\ InRowHeader(pointer'.down)
           /\ pointer'.farY /\ pointer'.at[2] >= HEADER_SIZE) =>
              getSelectedRows(selMgr') =
                  Range(Min(RowAt(pointer'.down), RowAt(pointer'.at)),
                        Max(RowAt(pointer'.down), RowAt(pointer'.at)))
       /\ (event' = "pointermove" /\ pointer'.down # <<>> /\ InColHeader(pointer'.down)
           /\ pointer'.farX /\ pointer'.at[1] >= HEADER_SIZE) =>
              getSelectedColumns(selMgr') =
                  Range(Min(ColAt(pointer'.down), ColAt(pointer'.at)),
                        Max(ColAt(pointer'.down), ColAt(pointer'.at)))
       /\ (event' = "pointerup" /\ InRowHeader(pointer.down) /\ pointer.farY) =>
              getSelectedRows(selMgr') = getSelectedRows(selMgr)
       /\ (event' = "pointerup" /\ InColHeader(pointer.down) /\ pointer.farX) =>
              getSelectedColumns(selMgr') = getSelectedColumns(selMgr)]_vars

SessionPoints ==
    {<<20, 20>>, <<60, 20>>, <<137, 20>>, <<160, 20>>,
     <<20, 50>>, <<20, 67>>, <<60, 50>>}

NextSession ==
    \/ PressAt(SessionPoints)
    \/ MoveTo(SessionPoints)
    \/ Release

SpecSession == Init /\ [][NextSession]_vars

ActiveSessions(g) ==
    {k \in {"resize", "column", "row", "cell"} :
        \/ k = "resize" /\ (g.isResizing \/ g.resizingCol # Null \/ g.resizingRow # Null)
        \/ k = "column" /\ g.isColHeaderDrag
        \/ k = "row" /\ g.isRowHeaderDrag
        \/ k = "cell" /\ g.dragStartCell # NullPoint}

\* C28: at most one of the resize, column-header, row-header and data-area
\* sessions is active in any state; a pointer-move neither starts a session
\* nor hands it to another owner; after pointer-up no session is active and
\* the button flag and the press position are cleared.
C28_SingleSessionOwner ==
    [][/\ Cardinality(ActiveSessions(grid)) <= 1
       /\ Cardinality(ActiveSessions(grid')) <= 1
       /\ event' = "pointermove" => ActiveSessions(grid') = ActiveSessions(grid)
       /\ event' = "pointerup" =>
              /\ ActiveSessions(grid') = {}
              /\ ~grid'.isMouseDown
              /\ grid'.dragStartMouse = NullMouse]_vars

C28_Witness ==
    /\ event = "pointermove"
    /\ ActiveSessions(grid) = {"resize"}
    /\ pointer.farX
    /\ getSelectedRows(selMgr) # <<>>
    /\ undoStack # <<>>

RECURSIVE TrackStart(_, _)
TrackStart(sizes, index) ==
    IF index = 0 THEN 0 ELSE TrackStart(sizes, index - 1) + sizes[index - 1]

ColumnGutterAt(p) ==
    {c \in 0..(COLS - 1) :
        LET right == HEADER_SIZE + TrackStart(colWidths, c) + colWidths[c] - grid.scrollLeft
        IN  p[1] >= right - RESIZE_GUTTER /\ p[1] < right}

ColumnBodyAt(p) ==
    {c \in 0..(COLS - 1) :
        LET left == HEADER_SIZE + TrackStart(colWidths, c) - grid.scrollLeft
        IN  p[1] >= left /\ p[1] < left + colWidths[c] - RESIZE_GUTTER}

RowGutterAt(p) ==
    {r \in 0..(ROWS - 1) :
        LET bottom == HEADER_SIZE + TrackStart(rowHeights, r) + rowHeights[r] - grid.scrollTop
        IN  p[2] >= bottom - RESIZE_GUTTER /\ p[2] < bottom}

RowBodyAt(p) ==
    {r \in 0..(ROWS - 1) :
        LET top == HEADER_SIZE + TrackStart(rowHeights, r) - grid.scrollTop
        IN  p[2] >= top /\ p[2] < top + rowHeights[r] - RESIZE_GUTTER}

RECURSIVE FirstTrack_IgnoresSize(_, _, _, _, _)
FirstTrack_IgnoresSize(sizes, count, index, start, limit) ==
    IF index >= count THEN [index |-> 0, start |-> start]
    ELSE IF start >= limit THEN [index |-> index, start |-> start]
    ELSE FirstTrack_IgnoresSize(sizes, count, index + 1, start + sizes[index], limit)

RECURSIVE FirstTrack(_, _, _, _, _)
FirstTrack(sizes, count, index, start, limit) ==
    IF index >= count THEN [index |-> 0, start |-> start]
    ELSE IF start + sizes[index] >= limit THEN [index |-> index, start |-> start]
    ELSE FirstTrack(sizes, count, index + 1, start + sizes[index], limit)

RECURSIVE LastTrack(_, _, _, _, _)
LastTrack(sizes, count, index, start, limit) ==
    IF index >= count THEN count - 1
    ELSE IF start > limit THEN index
    ELSE LastTrack(sizes, count, index + 1, start + sizes[index], limit)

getVisibleRange(w) ==
    LET scrollX == w.grid.scrollLeft
        scrollY == w.grid.scrollTop
        viewW == w.grid.clientWidth
        viewH == w.grid.clientHeight
        firstR == FirstTrack(w.rowHeights, ROWS, 0, 0, scrollY - RENDER_BUFFER_PX)
        firstC == FirstTrack(w.colWidths, COLS, 0, 0, scrollX - RENDER_BUFFER_PX)
    IN  [firstRow |-> firstR.index,
         lastRow |-> LastTrack(w.rowHeights, ROWS, firstR.index, firstR.start,
                               scrollY + viewH + RENDER_BUFFER_PX),
         firstCol |-> firstC.index,
         lastCol |-> LastTrack(w.colWidths, COLS, firstC.index, firstC.start,
                               scrollX + viewW + RENDER_BUFFER_PX)]

render(w) == [renderFrame(w) EXCEPT !.ret = getVisibleRange(w), !.event = "render"]

TrackSizes == {DEFAULT_ROW_HEIGHT, DEFAULT_COL_WIDTH, 520}
ClientSizes == {100, 400}
ScrollStops == {0, 120, 240, 420}

getTotalHeight(w) == TrackStart(w.rowHeights, ROWS)
getTotalWidth(w) == TrackStart(w.colWidths, COLS)

ResizeTrackTo ==
    \/ \E i \in RowIdx, s \in TrackSizes : Commit(scheduleRender(setHeight(World, i, s)))
    \/ \E i \in ColIdx, s \in TrackSizes : Commit(scheduleRender(setWidth(World, i, s)))

ScrollTo ==
    \E sx \in ScrollStops, sy \in ScrollStops :
        /\ sx = 0 \/ sx <= getTotalWidth(World) - grid.clientWidth
        /\ sy = 0 \/ sy <= getTotalHeight(World) - grid.clientHeight
        /\ Commit(scheduleRender([World EXCEPT !.grid.scrollLeft = sx, !.grid.scrollTop = sy]))

ResizeWindow ==
    \E vw \in ClientSizes, vh \in ClientSizes :
        Commit(scheduleRender([World EXCEPT !.grid.clientWidth = vw, !.grid.clientHeight = vh]))

PaintFrame ==
    /\ grid.pendingFrames > 0
    /\ Commit(render(World))

NextViewport == ResizeTrackTo \/ ScrollTo \/ ResizeWindow \/ PaintFrame

SpecViewport == Init /\ [][NextViewport]_vars

ERROR_SENTINEL == "#ERROR"

FormulaTexts == {"=1+2", "=1/"}
EditorTexts == {"", "x"} \cup FormulaTexts
EvaluatorOutcomes == {[threw |-> FALSE, value |-> "3"], [threw |-> TRUE, value |-> ""]}

Cell_isFormula(text) == text \in FormulaTexts

Cell_hasFormula(cell) == cell.formula # NoFormula

Cell_setFormula(w, p, text) == [w EXCEPT !.cells[p].formula = text]

Cell_removeFormula(w, p) == [w EXCEPT !.cells[p].formula = NoFormula]

Cell_setValue(w, p, text) == [w EXCEPT !.cells[p].value = text]

startEditingCell(w, row, col) ==
    LET w1 == getCell(w, row, col)
        cell == w1.cells[<<row, col>>]
    IN  [w1 EXCEPT !.grid.animating = Cell_isFormula(cell.value) \/ Cell_hasFormula(cell),
                   !.grid.editingCell = Point(row, col),
                   !.grid.editorValue = IF Cell_hasFormula(cell) THEN cell.formula
                                        ELSE cell.value]

onDoubleClick(w, evt) ==
    LET pos == getMousePos(w, evt)
    IN  IF evt.clientX < HEADER_SIZE \/ evt.clientY < HEADER_SIZE THEN w
        ELSE startEditingCell(w, findRowByOffset(w, pos.y - HEADER_SIZE).row,
                              findColumnByOffset(w, pos.x - HEADER_SIZE).col)

evaluateCellFormula_KeepsValue(w, p, outcome) ==
    w.cells[p].value

evaluateCellFormula(w, p, outcome) ==
    LET formula == w.cells[p].formula
    IN  IF formula = NoFormula \/ ~Cell_isFormula(formula) THEN w.cells[p].value
        ELSE IF outcome.threw THEN ERROR_SENTINEL
        ELSE outcome.value

finishEditing(w, commit, outcome) ==
    IF w.grid.editingCell = NullPoint THEN w
    ELSE LET p == <<w.grid.editingCell.row, w.grid.editingCell.col>>
             oldValue == w.cells[p].value
             newValue == w.grid.editorValue
             w1 == IF Cell_isFormula(newValue)
                   THEN LET wf == Cell_setFormula(w, p, newValue)
                        IN  Cell_setValue(wf, p, evaluateCellFormula(wf, p, outcome))
                   ELSE Cell_setValue(Cell_removeFormula(w, p), p, newValue)
             command == EditCellCommand(p[1], p[2], oldValue, w1.cells[p].value)
             w2 == IF commit /\ newValue # oldValue
                   THEN CommandManager_execute(w1, command)
                   ELSE w
         IN  scheduleRender([w2 EXCEPT !.grid.animating = FALSE,
                                       !.grid.editingCell = NullPoint])

EditPoints == {<<60, 50>>, <<160, 50>>, <<20, 50>>}

DoubleClick ==
    /\ grid.editingCell = NullPoint
    /\ \E p \in EditPoints : Commit([onDoubleClick(World, Evt(p, 0)) EXCEPT !.event = "dblclick"])

TypeInEditor ==
    /\ grid.editingCell # NullPoint
    /\ \E text \in EditorTexts :
         Commit([World EXCEPT !.grid.editorValue = text,
                              !.grid.animating = Cell_isFormula(text),
                              !.event = "input"])

CommitEdit ==
    /\ grid.editingCell # NullPoint
    /\ ExecuteFits
    /\ \E outcome \in EvaluatorOutcomes :
         Commit([finishEditing(World, TRUE, outcome) EXCEPT
                    !.event = "commitEdit",
                    !.ret = Ret("evaluateFormula", Null, Null, NullCell,
                                IF outcome.threw THEN "threw" ELSE outcome.value, Null)])

CancelEdit ==
    /\ grid.editingCell # NullPoint
    /\ Commit([finishEditing(World, FALSE, CHOOSE o \in EvaluatorOutcomes : TRUE)
                  EXCEPT !.event = "cancelEdit"])

NextFormula == DoubleClick \/ TypeInEditor \/ CommitEdit \/ CancelEdit \/ KeyUndo

SpecFormula == Init /\ [][NextFormula]_vars

\* C26: when the editor holds a formula text that differs from the cell's
\* displayed value and the evaluator throws during the commit, the commit
\* runs to its end (the editor is closed and one edit command is recorded),
\* the cell displays the error sentinel and its formula source is the text
\* that was in the editor.
C26_FormulaFailureIsContained ==
    [][(/\ event' = "commitEdit"
        /\ ret'.text = "threw"
        /\ Cell_isFormula(grid.editorValue)
        /\ grid.editorValue # cells[<<grid.editingCell.row, grid.editingCell.col>>].value) =>
           LET p == <<grid.editingCell.row, grid.editingCell.col>>
           IN  /\ grid'.editingCell = NullPoint
               /\ cells'[p].value = ERROR_SENTINEL
               /\ cells'[p].formula = grid.editorValue
               /\ undoStack' # <<>>
               /\ undoStack'[Len(undoStack')].kind = "EditCell"
               /\ undoStack'[Len(undoStack')].newValue = ERROR_SENTINEL]_vars

C26_Witness ==
    /\ event = "commitEdit"
    /\ ret.text = "threw"
    /\ <<0, 1>> \in DOMAIN cells
    /\ cells[<<0, 1>>].value = ERROR_SENTINEL
    /\ cells[<<0, 1>>].formula = "=1/"
    /\ Len(undoStack) = 2
    /\ undoStack[1].newValue = "3"

(***************************************************************************)
(* Composite commands: format changes over a selection, and composites     *)
(* whose children write the same cell one after the other.                 *)
(***************************************************************************)
ChainedEdits(w) ==
    {CompositeCommand(<<EditCellCommand(p[1], p[2], w.cells[p].value, "a"),
                        EditCellCommand(p[1], p[2], "a", "b")>>) : p \in StoredCoords(w)}

ExecuteChainedEdits ==
    /\ ExecuteFits
    /\ \E command \in ChainedEdits(World) :
         Commit([CommandManager_execute(World, command) EXCEPT !.event = "execute"])

NextComposite ==
    \/ CallSelectRow
    \/ CallSelectColumn
    \/ KeyBold
    \/ KeyItalic
    \/ ChangeFontSize
    \/ ExecuteChainedEdits
    \/ KeyUndo

SpecComposite == InitCmd /\ [][NextComposite]_vars

ChildField(c) ==
    CASE c.kind = "Bold" -> "isBold"
      [] c.kind = "Italic" -> "isItalic"
      [] c.kind = "FontSize" -> "fontSize"
      [] OTHER -> "value"

ChildOld(c) ==
    CASE c.kind \in {"Bold", "Italic"} -> c.oldFlag
      [] c.kind = "FontSize" -> c.oldSize
      [] OTHER -> c.oldValue

ChildNew(c) ==
    CASE c.kind \in {"Bold", "Italic"} -> c.newFlag
      [] c.kind = "FontSize" -> c.newSize
      [] OTHER -> c.newValue

ChildTarget(c) == <<c.row, c.col, ChildField(c)>>

CellFields == {"value", "isBold", "isItalic", "fontSize"}

Untouched(children, before, after) ==
    /\ DOMAIN after = DOMAIN before
    /\ \A q \in DOMAIN before : \A f \in CellFields :
          (\A i \in 1 .. Len(children) : ChildTarget(children[i]) # <<q[1], q[2], f>>) =>
              after[q][f] = before[q][f]

\* C27: a step that executes a composite adds that composite alone to the
\* undo stack and leaves every cell attribute a child writes at the value
\* of the last child writing it; a step that undoes a composite removes
\* one entry and leaves every such attribute at the old value of the first
\* child writing it, so a format change over several cells is reverted by
\* that one undo; attributes no child writes keep their values.
C27_CompositeIsOneEntry ==
    [][/\ (Len(undoStack') = Len(undoStack) + 1 /\ Top(undoStack').kind = "Composite") =>
              LET children == Top(undoStack').children
              IN  /\ children # <<>>
                  /\ Pop(undoStack') = undoStack
                  /\ \A i \in 1 .. Len(children) :
                        (\A j \in (i + 1) .. Len(children) :
                            ChildTarget(children[j]) # ChildTarget(children[i])) =>
                                cells'[<<children[i].row, children[i].col>>][ChildField(children[i])]
                                    = ChildNew(children[i])
                  /\ Untouched(children, cells, cells')
       /\ (Len(undoStack') = Len(undoStack) - 1 /\ Top(undoStack).kind = "Composite") =>
              LET children == Top(undoStack).children
              IN  /\ undoStack' = Pop(undoStack)
                  /\ \A i \in 1 .. Len(children) :
                        (\A j \in 1 .. (i - 1) :
                            ChildTarget(children[j]) # ChildTarget(children[i])) =>
                                cells'[<<children[i].row, children[i].col>>][ChildField(children[i])]
                                    = ChildOld(children[i])
                  /\ Untouched(children, cells, cells')]_vars

C27_Witness ==
    /\ event = "keydown"
    /\ redoStack # <<>>
    /\ Top(redoStack).kind = "Composite"
    /\ Len(Top(redoStack).children) = 2
    /\ Top(redoStack).children[1].kind = "Bold"
    /\ ~cells[<<0, 0>>].isBold /\ ~cells[<<0, 1>>].isBold
    /\ Len(undoStack) = 1
    /\ undoStack[1].children[1].kind = "EditCell"
    /\ cells[<<0, 1>>].value = "b"

(***************************************************************************)
(* Grid: coordinate-to-index lookup.  The track sizes are the ones a       *)
(* resize can leave (positive); the offsets reach below zero, onto every   *)
(* track boundary and beyond the total size.                               *)
(***************************************************************************)
LookupSizes == {10, MIN_COL_WIDTH, 120}
LookupOffsets == {-7, 0, 9, 10, 39, 40, 50, 119, 120, 130, 160, 239, 240, 360, 500}

SizeTrackTo ==
    \/ \E i \in RowIdx, s \in LookupSizes : Commit(setHeight(World, i, s))
    \/ \E i \in ColIdx, s \in LookupSizes : Commit(setWidth(World, i, s))

LookupColumn ==
    \E offset \in LookupOffsets :
        LET hit == findColumnByOffset(World, offset)
        IN  Commit([World EXCEPT !.event = "findColumnByOffset",
                                 !.ret = [index |-> hit.col, within |-> hit.within,
                                          offset |-> offset]])

LookupRow ==
    \E offset \in LookupOffsets :
        LET hit == findRowByOffset(World, offset)
        IN  Commit([World EXCEPT !.event = "findRowByOffset",
                                 !.ret = [index |-> hit.row, within |-> hit.within,
                                          offset |-> offset]])

NextLookup == SizeTrackTo \/ LookupColumn \/ LookupRow

SpecLookup == Init /\ [][NextLookup]_vars

LookupIsClamped(sizes, count) ==
    /\ ret.index \in 0 .. (count - 1)
    /\ (0 <= ret.offset /\ ret.offset < TrackStart(sizes, count)) =>
           /\ TrackStart(sizes, ret.index) <= ret.offset
           /\ ret.offset < TrackStart(sizes, ret.index) + sizes[ret.index]
           /\ ret.within = ret.offset - TrackStart(sizes, ret.index)
    /\ ret.offset >= TrackStart(sizes, count) => ret.index = count - 1

\* C31: findColumnByOffset and findRowByOffset return an index of the grid
\* for every offset; for an offset from 0 up to the total size the track
\* returned contains the offset and within is the distance from the
\* track's start; for an offset at or beyond the total size the last index
\* is returned.
C31_LookupIsTotalAndClamped ==
    /\ event = "findColumnByOffset" => LookupIsClamped(colWidths, COLS)
    /\ event = "findRowByOffset" => LookupIsClamped(rowHeights, ROWS)

C31_Witness ==
    /\ event = "findColumnByOffset"
    /\ colWidths[0] = 10 /\ colWidths[1] = 120
    /\ ret.offset = 10
    /\ ret.index = 1 /\ ret.within = 0

(***************************************************************************)
(* Grid: the visible range at the edges.  The scroll filler is sized once, *)
(* from the default track sizes, so the scroll offsets stay within the     *)
(* filler even when tracks have been made smaller; the client area may     *)
(* collapse to nothing.                                                    *)
(***************************************************************************)
virtualHeight == ROWS * DEFAULT_ROW_HEIGHT
virtualWidth == COLS * DEFAULT_COL_WIDTH

EdgeClientSizes == {0, 20}
EdgeScrollStops == {0, 35, 50, 90}

ShrinkTrack ==
    \/ \E i \in RowIdx : Commit(scheduleRender(setHeight(World, i, MIN_ROW_HEIGHT)))
    \/ \E i \in ColIdx : Commit(scheduleRender(setWidth(World, i, MIN_COL_WIDTH)))

ScrollWithinFiller ==
    \E sx \in EdgeScrollStops, sy \in EdgeScrollStops :
        /\ sx = 0 \/ sx <= virtualWidth - grid.clientWidth
        /\ sy = 0 \/ sy <= virtualHeight - grid.clientHeight
        /\ Commit(scheduleRender([World EXCEPT !.grid.scrollLeft = sx, !.grid.scrollTop = sy]))

CollapseWindow ==
    \E vw \in EdgeClientSizes, vh \in EdgeClientSizes :
        Commit(scheduleRender([World EXCEPT !.grid.clientWidth = vw, !.grid.clientHeight = vh]))

NextViewportEdge == ShrinkTrack \/ ScrollWithinFiller \/ CollapseWindow \/ PaintFrame

SpecViewportEdge == Init /\ [][NextViewportEdge]_vars

\* C32: a frame painted with the scroll offset beyond the total size of the
\* rows (columns) has firstRow (firstCol) equal to the last index, and a
\* frame painted with a client height (width) of zero has an empty range,
\* firstRow > lastRow (firstCol > lastCol).
C32_ViewportEdgeCases ==
    event = "render" =>
        /\ grid.scrollTop > getTotalHeight(World) => ret.firstRow = ROWS - 1
        /\ grid.scrollLeft > getTotalWidth(World) => ret.firstCol = COLS - 1
        /\ grid.clientHeight = 0 => ret.firstRow > ret.lastRow
        /\ grid.clientWidth = 0 => ret.firstCol > ret.lastCol

(***************************************************************************)
(* Grid: the window losing input focus, during a resize session or not.    *)
(***************************************************************************)
stopMarchingAntsAnimation(w) == [w EXCEPT !.grid.animating = FALSE]

onWindowBlur(w) == stopMarchingAntsAnimation(w)

WindowBlur == Commit([onWindowBlur(World) EXCEPT !.event = "blur"])

NextBlur ==
    \/ PointerDownAt(ResizeDownPoints)
    \/ PointerMoveAt(ResizeMovePoints)
    \/ PointerUp
    \/ WindowBlur

SpecBlur == Init /\ [][NextBlur]_vars

\* C33: a pointer-up or a loss of input focus during a resize session ends
\* the session: the sizes stay as the session left them, the session flags
\* are reset, and one command holding the size before the session and the
\* size now is added to the undo stack.
C33_ResizeSessionEnds ==
    [][(event' \in {"pointerup", "blur"} /\ grid.isResizing) =>
           /\ TracksNow' = TracksNow
           /\ ~grid'.isResizing
           /\ grid'.resizingCol = Null /\ grid'.resizingRow = Null
           /\ grid'.currentResizeCommand = NoCommand
           /\ Len(undoStack') = Len(undoStack) + 1
           /\ Pop(undoStack') = undoStack
           /\ IsResize(Top(undoStack'))
           /\ Top(undoStack').oldSize = TrackSize(tracksAtDown, Top(undoStack'))
           /\ Top(undoStack').newSize = TrackSize(TracksNow', Top(undoStack'))]_vars

(***************************************************************************)
(* Structural edits next to the command history: bold toggles on a         *)
(* selected cell of the first column, undo, and the four insert/delete     *)
(* buttons.                                                                *)
(***************************************************************************)
SelectInFirstColumn == \E r \in RowIdx : WithSel(selectCell(selMgr, r, 0))

NextHistory ==
    \/ SelectInFirstColumn
    \/ KeyBold
    \/ KeyUndo
    \/ ClickInsertRow
    \/ ClickInsertColumn
    \/ ClickDeleteRow
    \/ ClickDeleteColumn

SpecHistory == InitCmd /\ [][NextHistory]_vars

\* C34: a click on Insert Row, Insert Column, Delete Row or Delete Column,
\* confirmed or not, leaves the undo stack and the redo stack as they were.
C34_StructuralEditsBypassHistory ==
    [][event' \in {"insertRow", "insertColumn", "deleteRow", "deleteColumn",
                   "deleteRowCancelled", "deleteColumnCancelled"} =>
           UNCHANGED <<undoStack, redoStack>>]_vars

C34_Witness ==
    /\ event = "insertRow"
    /\ undoStack # <<>>
    /\ redoStack # <<>>
    /\ <<1, 0>> \in DOMAIN cells

(***************************************************************************)
(* Keyboard navigation: arrow keys with and without Shift after pointer    *)
(* selections of cells, headers and the corner.                            *)
(***************************************************************************)
NavPoints == {<<20, 20>>, <<60, 20>>, <<20, 50>>, <<60, 50>>, <<160, 80>>}

\* The cell the next arrow key moves from: the drag focus while a drag is
\* in progress, the selected cell otherwise.
KeyboardFocus(s) ==
    IF isDragging(s) /\ s.dragEnd # NullPoint THEN s.dragEnd ELSE s.selectedCell

PressArrow ==
    \E k \in ArrowKeys, shift \in BOOLEAN :
        Commit([onKeyDown(World, Key(k, FALSE, shift, FALSE, FALSE)) EXCEPT
                   !.event = "arrow",
                   !.ret = [key |-> k, shiftKey |-> shift,
                            from |-> KeyboardFocus(selMgr)]])

NextNav ==
    \/ PointerDownAt(NavPoints)
    \/ PointerMoveAt(NavPoints)
    \/ PointerUp
    \/ PressArrow
    \/ KeySelectAll

SpecNav == Init /\ [][NextNav]_vars

InGrid(p) == p.row \in RowIdx /\ p.col \in ColIdx

StepInGrid(p, key) ==
    [row |-> Max(0, Min(ROWS - 1, p.row + (CASE key = "ArrowDown" -> 1
                                             [] key = "ArrowUp" -> -1
                                             [] OTHER -> 0))),
     col |-> Max(0, Min(COLS - 1, p.col + (CASE key = "ArrowRight" -> 1
                                             [] key = "ArrowLeft" -> -1
                                             [] OTHER -> 0)))]

\* C35: the selected cell and both drag points are always inside the grid,
\* and an arrow key, with or without Shift, moves the focus one cell in its
\* direction or keeps it on the edge index when it is already on that edge.
C35_NavigationStaysInBounds ==
    /\ selMgr.selectedCell # NullPoint => InGrid(selMgr.selectedCell)
    /\ selMgr.dragStart # NullPoint => InGrid(selMgr.dragStart)
    /\ selMgr.dragEnd # NullPoint => InGrid(selMgr.dragEnd)
    /\ (event = "arrow" /\ ret.from # NullPoint) =>
           /\ KeyboardFocus(selMgr) = StepInGrid(ret.from, ret.key)
           /\ ret.shiftKey => isDragging(selMgr)
           /\ ~ret.shiftKey => ~isDragging(selMgr)

C35_Witness ==
    /\ event = "arrow"
    /\ ret.key = "ArrowRight"
    /\ ret.shiftKey
    /\ ret.from # NullPoint
    /\ ret.from.col = COLS - 1
    /\ selMgr.dragEnd.col = COLS - 1
    /\ selMgr.dragStart.col = 0

\* C36: every cell of the store is kept under a key inside the grid:
\* 0 <= row < ROWS and 0 <= col < COLS.
C36_StoreKeysAddressable ==
    \A p \in DOMAIN cells : p[1] \in RowIdx /\ p[2] \in ColIdx

(***************************************************************************)
(* One edit session: the cell editor's own listeners (Enter, Escape, blur) *)
(* next to the window's key listener, each handler run to completion, in   *)
(* any order.                                                              *)
(***************************************************************************)
EditSessionPoints == {<<60, 50>>, <<160, 50>>}

WindowKeys ==
    {Key("Enter", FALSE, FALSE, FALSE, FALSE), Key("Escape", FALSE, FALSE, FALSE, FALSE),
     Key("c", TRUE, FALSE, FALSE, FALSE), Key("v", TRUE, FALSE, FALSE, FALSE)}

WindowKeyDown ==
    \E e \in WindowKeys :
        /\ e.key = "v" => ExecuteFits
        /\ Commit([onKeyDown(World, e) EXCEPT !.event = "windowKey",
                                              !.ret = [key |-> e.key]])

EditorEnter ==
    /\ grid.editingCell # NullPoint
    /\ ExecuteFits
    /\ \E outcome \in EvaluatorOutcomes :
         Commit([finishEditing(World, TRUE, outcome) EXCEPT !.event = "editorEnter"])

EditorEscape ==
    /\ grid.editingCell # NullPoint
    /\ Commit([finishEditing(World, FALSE, CHOOSE o \in EvaluatorOutcomes : TRUE)
                  EXCEPT !.event = "editorEscape"])

EditorBlur ==
    /\ ExecuteFits
    /\ \E outcome \in EvaluatorOutcomes :
         Commit([finishEditing(World, TRUE, outcome) EXCEPT !.event = "editorBlur"])

NextEditSession ==
    \/ PointerDownAt(EditSessionPoints)
    \/ PointerUp
    \/ DoubleClick
    \/ TypeInEditor
    \/ EditorEnter
    \/ EditorEscape
    \/ EditorBlur
    \/ WindowKeyDown

SpecEditSession == InitCmd /\ [][NextEditSession]_vars

EditedValue == cells[<<grid.editingCell.row, grid.editingCell.col>>].value

\* C37: while a cell is being edited, only the step that ends the session
\* may push a command, and it pushes at most one; the editor's Enter and
\* blur handlers and the window's Enter/Escape handling push nothing once
\* the session is over; Escape, and a commit of a text equal to the cell's
\* value, push nothing, keep the value and keep the redo stack.
C37_OneCommandPerEditSession ==
    [][/\ (grid.editingCell # NullPoint /\ grid'.editingCell # NullPoint) =>
              UNCHANGED <<undoStack, redoStack>>
       /\ grid.editingCell # NullPoint => Len(undoStack') <= Len(undoStack) + 1
       /\ (/\ grid.editingCell = NullPoint
           /\ \/ event' \in {"editorEnter", "editorBlur"}
              \/ event' = "windowKey" /\ ret'.key \in {"Enter", "Escape"}) =>
              UNCHANGED <<undoStack, redoStack, cells>>
       /\ (/\ grid.editingCell # NullPoint
           /\ \/ event' = "editorEscape"
              \/ event' \in {"editorEnter", "editorBlur"} /\ grid.editorValue = EditedValue) =>
              /\ UNCHANGED <<undoStack, redoStack>>
              /\ cells'[<<grid.editingCell.row, grid.editingCell.col>>].value = EditedValue
      ]_vars

\* C38: a pointer-up that directly follows the pointer-down that started a
\* resize session (no pointer-move in between) executes and pushes one resize
\* command whose old and new size are equal, leaves every track size as it
\* was and empties the redo stack.
C38_ResizeClickPushesNoOp ==
    [][(event = "pointerdown" /\ grid.isResizing /\ event' = "pointerup") =>
           /\ Len(undoStack') = Len(undoStack) + 1
           /\ Pop(undoStack') = undoStack
           /\ IsResize(Top(undoStack'))
           /\ Top(undoStack').oldSize = Top(undoStack').newSize
           /\ Executions(calls') = {1}
           /\ TracksNow' = TracksNow
           /\ redoStack' = <<>>]_vars

C38_Witness ==
    /\ event = "pointerup"
    /\ Len(undoStack) = 2
    /\ IsResize(Top(undoStack))
    /\ Top(undoStack).oldSize = Top(undoStack).newSize
    /\ undoStack[1].oldSize # undoStack[1].newSize
    /\ TrackSize(TracksNow, Top(undoStack)) = Top(undoStack).newSize
    /\ redoStack = <<>>

(***************************************************************************)
(* Blank writes: setCellValue with blank and non-blank texts, imports of   *)
(* sheets that hold blanks, and animation frames in between.               *)
(***************************************************************************)
SheetTexts == {"", " ", "y"}

ImportSheet ==
    \E nr \in 1 .. 2, nc \in 1 .. 2 :
        \E data \in [1 .. nr -> [1 .. nc -> SheetTexts]] :
            Commit([importFromJSON(World, data) EXCEPT !.event = "import",
                                                      !.ret = [data |-> data]])

NextBlankWrites ==
    \/ StoreWrite
    \/ ImportSheet
    \/ Frame

SpecBlankWrites == Init /\ [][NextBlankWrites]_vars

SameEntry(p) ==
    /\ p \in DOMAIN cells' <=> p \in DOMAIN cells
    /\ p \in DOMAIN cells => cells'[p] = cells[p]

\* C39: setCellValue with a blank text (empty or white space only) changes
\* nothing: no cell and no row map is created, no value changes and no frame
\* is requested; an import leaves every coordinate for which the sheet holds
\* a blank as it was and writes the sheet's text to every other one.
C39_BlankWriteIsNoOp ==
    [][/\ (event' = "setCellValue" /\ IsBlank(ret'.text)) =>
              UNCHANGED <<cells, grid, colWidths, rowHeights, selMgr, undoStack, redoStack>>
       /\ event' = "import" =>
              \A r \in DOMAIN ret'.data : \A c \in DOMAIN ret'.data[r] :
                  IF IsBlank(ret'.data[r][c])
                  THEN SameEntry(<<r - 1, c - 1>>)
                  ELSE /\ <<r - 1, c - 1>> \in DOMAIN cells'
                       /\ cells'[<<r - 1, c - 1>>].value = ret'.data[r][c]
      ]_vars

C39_Witness ==
    /\ event = "import"
    /\ Len(ret.data) = 2
    /\ ret.data[1] = <<" ", "y">>
    /\ ret.data[2] = <<"", "">>
    /\ DOMAIN cells = {<<0, 0>>, <<0, 1>>}
    /\ cells[<<0, 0>>].value = "x"
    /\ cells[<<0, 1>>].value = "y"
    /\ grid.rowMaps = {0}

\* C40: an undo with a command to undo, followed at once by a redo, gives
\* back the cell store, the track sizes and both stacks as they were before
\* the undo; and no undo or redo changes the number of commands held in the
\* two stacks together.
C40_UndoRedoInverse ==
    [][/\ (Invoked(calls', "CommandManager.undo") /\ undoStack # <<>>) =>
              LET after == CommandManager_redo(World')
              IN  /\ after.cells = cells
                  /\ after.colWidths = colWidths
                  /\ after.rowHeights = rowHeights
                  /\ after.undoStack = undoStack
                  /\ after.redoStack = redoStack
       /\ (Invoked(calls', "CommandManager.undo") \/ Invoked(calls', "CommandManager.redo")) =>
              Len(undoStack') + Len(redoStack') = Len(undoStack) + Len(redoStack)
      ]_vars

====
